---- MODULE Spec2Model ----
(***************************************************************************)
(* Scoring, categorisation and ranking engine of the AI repository         *)
(* leaderboard: MetricsCalculator, HiddenGemsDetector and                  *)
(* LeaderboardGenerator, with the leaderboard_*.json snapshot store the    *)
(* generator reads its rank-delta baseline from.                           *)
(*                                                                         *)
(* Numbers.  Python floats are modelled in fixed point: a score s is the   *)
(* integer s * Scale (Scale = 10^4), products and quotients are rounded     *)
(* down.  Timestamps are modelled by what the code reads from them: the    *)
(* whole number of days between the timestamp and now ((now - t).days)     *)
(* and whether the datetime carries a tzinfo.                              *)
(* Optional values (None) are sequences of length 0 or 1.                  *)
(***************************************************************************)
EXTENDS Integers, Sequences, FiniteSets, TLC

None == << >>
Some(x) == << x >>
IsNone(o) == o = << >>
Get(o) == o[1]

\* A min that does not cap.
Uncapped(a, b) == a

Min(a, b) == IF a <= b THEN a ELSE b
Max(a, b) == IF a >= b THEN a ELSE b

Scale == 10 ^ 4
Tenths(n) == n * (Scale \div 10)
Hundredths(n) == n * (Scale \div 100)

RECURSIVE SumSeq(_)
SumSeq(s) == IF s = << >> THEN 0 ELSE Head(s) + SumSeq(Tail(s))

\* Variant of the slice that keeps the whole list (no [:n]).
TakeAll(s, n) == s

\* s[1..n] of a list: the slice s[:n].
Take(s, n) == SubSeq(s, 1, Min(n, Len(s)))

\* list.sort(key=..., reverse=True) on a list of [key, item] pairs: descending
\* by key, stable (elements with equal keys keep their relative order).
\* The place of element i after the sort: behind the elements with a greater
\* key and behind the earlier elements with the same key.
PlaceDesc(keyed, i) ==
    1 + Cardinality({ k \in 1..Len(keyed) :
                          \/ keyed[k].key > keyed[i].key
                          \/ keyed[k].key = keyed[i].key /\ k < i })

Places(keyed) == [i \in 1..Len(keyed) |-> PlaceDesc(keyed, i)]

SortedAt(keyed, places) ==
    [p \in 1..Len(keyed) |-> keyed[CHOOSE i \in 1..Len(keyed) : places[i] = p]]

Items(keyed) == [k \in 1..Len(keyed) |-> keyed[k].item]

SortDesc(keyed) == Items(SortedAt(keyed, Places(keyed)))

(***************************************************************************)
(* models.py                                                               *)
(***************************************************************************)

\* A datetime as the code uses it: days elapsed until now, and tz-awareness.
Timestamp(days_ago, aware) == [days_ago |-> days_ago, aware |-> aware]

\* (now - t).days after the call sites' coercion of naive values to UTC.
DaysSince(t) == t.days_ago

\* math.log(n) in units of 1/Scale, for the arguments stars + 1 of the modelled
\* star counts.  math.log raises ValueError for n <= 0.
LogDomainError(n) == n <= 0

LnScaled(n) ==
    CASE n = 1 -> 0
      [] n = 51 -> 39318
      [] n = 86 -> 44543
      [] n = 100 -> 46052
      [] n = 101 -> 46151
      [] n = 501 -> 62166
      [] n = 1001 -> 69088
      [] n = 1002 -> 69098
      [] n = 5000 -> 85172
      [] n = 5001 -> 85174
      [] n = 7001 -> 88538
      [] n = 10001 -> 92104
      [] n = 10002 -> 92105
      [] n = 15001 -> 96159
      [] n = 100001 -> 115129

(***************************************************************************)
(* config.py, HiddenGemCriteria                                            *)
(***************************************************************************)
hidden_gem_max_stars == 1000
max_stars == 1000
min_contributors == 2
max_age_days == 730
min_readme_length == 200
max_days_since_push == 90
require_active_maintenance == TRUE
\* min_quality_score = 0.7
min_quality_score == Tenths(7)
\* settings.hidden_gem_min_quality_score = 0.7
hidden_gem_min_quality_score == Tenths(7)

\* HiddenGemCriteria(): the criteria of a detector built without argument.
HiddenGemCriteria ==
    [ max_stars |-> max_stars,
      min_quality_score |-> min_quality_score,
      min_contributors |-> min_contributors,
      max_age_days |-> max_age_days,
      min_readme_length |-> min_readme_length,
      require_active_maintenance |-> require_active_maintenance,
      max_days_since_push |-> max_days_since_push ]

(***************************************************************************)
(* metrics_calculator.py                                                   *)
(***************************************************************************)

\* calculate_momentum_score raises (ValueError: math domain error) exactly
\* when stars + 1 <= 0.
MomentumRaises(repo) == LogDomainError(repo.stargazers_count + 1)

calculate_momentum_score(repo) ==
    LET repo_age_days == DaysSince(repo.created_at)
        age_factor == Max(Scale \div 2, Scale - (repo_age_days * (Scale \div 10)) \div 365)
        days_since_push == DaysSince(repo.pushed_at)
        activity_factor == IF days_since_push <= 7 THEN Tenths(10)
                           ELSE IF days_since_push <= 30 THEN Tenths(8)
                           ELSE IF days_since_push <= 90 THEN Tenths(6)
                           ELSE Tenths(3)
        star_velocity == (repo.stargazers_count * Scale) \div Max(repo_age_days, 1)
        total_engagement == repo.stargazers_count + repo.forks_count + repo.watchers_count
        star_engagement_ratio == IF total_engagement > 0
                                 THEN (repo.stargazers_count * Scale) \div total_engagement
                                 ELSE 0
        size_factor == IF repo.size < 1000 THEN Tenths(8)
                       ELSE IF repo.size < 10000 THEN Tenths(10)
                       ELSE IF repo.size < 100000 THEN Tenths(9)
                       ELSE Tenths(7)
        momentum_score == (LnScaled(repo.stargazers_count + 1) * 4) \div 10
                          + star_velocity * 20
                          + (activity_factor * 2) \div 10
                          + age_factor \div 10
                          + (star_engagement_ratio * 5) \div 100
                          + (size_factor * 5) \div 100
    IN  Min(momentum_score, 10 * Scale)

\* A variant whose code-quality sub-score is capped at 0.3.
code_score_capped_low(repo) ==
    Min((IF repo.has_tests THEN 4 ELSE 0)
        + (IF repo.has_ci THEN 3 ELSE 0)
        + (IF repo.license_name THEN 2 ELSE 0)
        + (IF repo.topics.count >= 3 THEN 1 ELSE 0), 3)

\* The code-quality sub-score of calculate_quality_score, in tenths.
code_score(repo) ==
    Min((IF repo.has_tests THEN 4 ELSE 0)
        + (IF repo.has_ci THEN 3 ELSE 0)
        + (IF repo.license_name THEN 2 ELSE 0)
        + (IF repo.topics.count >= 3 THEN 1 ELSE 0), 10)

calculate_quality_score(repo) ==
    LET doc_readme == IF repo.readme_length > 0
                      THEN (IF repo.readme_length > 500 THEN 4
                            ELSE IF repo.readme_length > 200 THEN 3 ELSE 2)
                      ELSE 0
        doc_score == Min(doc_readme
                         + (IF repo.has_documentation THEN 3 ELSE 0)
                         + (IF repo.description.len > 20 THEN 2 ELSE 0), 10)
        contrib_score == IF repo.contributors_count > 0
                         THEN (IF repo.contributors_count >= 50 THEN 10
                               ELSE IF repo.contributors_count >= 20 THEN 8
                               ELSE IF repo.contributors_count >= 10 THEN 6
                               ELSE IF repo.contributors_count >= 5 THEN 4
                               ELSE IF repo.contributors_count >= 2 THEN 2
                               ELSE 1)
                         ELSE 0
        days_since_update == DaysSince(repo.updated_at)
        maintenance_score == IF days_since_update <= 30 THEN 10
                             ELSE IF days_since_update <= 90 THEN 8
                             ELSE IF days_since_update <= 180 THEN 6
                             ELSE IF days_since_update <= 365 THEN 4
                             ELSE 2
        \* sub-scores are in tenths, weights in tenths: the sum is in hundredths
        total_score == Hundredths(doc_score * 3 + code_score(repo) * 3
                                  + contrib_score * 2 + maintenance_score * 2)
    IN  Min(total_score, Scale)

\* calculate_repository_metrics calls calculate_momentum_score first, so it
\* raises whenever that does.
MetricsRaises(repo) == MomentumRaises(repo)

calculate_repository_metrics(repo) ==
    [ repo_id |-> repo.id,
      stars_growth_30d |-> 0,
      stars_growth_7d |-> 0,
      commit_frequency_30d |-> 0,
      test_coverage_score |-> IF repo.has_tests THEN Tenths(8) ELSE 0,
      documentation_score |-> Min((repo.readme_length * Scale) \div 1000, Scale),
      code_quality_score |-> calculate_quality_score(repo),
      contributor_diversity_score |-> Min((repo.contributors_count * Scale) \div 50, Scale) ]

\* calculate_hidden_gem_potential subtracts repo.created_at and repo.pushed_at
\* from the naive datetime.utcnow(): TypeError for timezone-aware values, once
\* the two early returns are passed.
PotentialRaises(repo) ==
    /\ repo.stargazers_count <= hidden_gem_max_stars
    /\ calculate_quality_score(repo) >= hidden_gem_min_quality_score
    /\ (repo.created_at.aware \/ repo.pushed_at.aware)

\* sum(factors), in hundredths.
PotentialFactors(repo) ==
    (IF DaysSince(repo.created_at) < 365 /\ repo.readme_length > 300 THEN 30 ELSE 0)
    + (IF repo.contributors_count > 0
          /\ repo.contributors_count * 100 > 5 * Max(repo.stargazers_count, 1)
       THEN 20 ELSE 0)
    + (IF DaysSince(repo.pushed_at) <= 7 THEN 20
       ELSE IF DaysSince(repo.pushed_at) <= 30 THEN 10 ELSE 0)
    + (IF repo.topics.ai_topics >= 2 THEN 15 ELSE 0)
    + (IF repo.has_tests /\ repo.has_ci THEN 15 ELSE 0)

calculate_hidden_gem_potential(repo) ==
    IF repo.stargazers_count > hidden_gem_max_stars THEN 0
    ELSE IF calculate_quality_score(repo) < hidden_gem_min_quality_score THEN 0
    ELSE Min((calculate_quality_score(repo) * PotentialFactors(repo)) \div 100, Scale)

\* The scores calculate_all_metrics writes back onto a repository.
BatchFinalScore(momentum, quality) == (momentum \div 2 + quality * 5) \div 2

WithBatchScore(repo, m, q) ==
    [repo EXCEPT !.momentum_score = m, !.quality_score = q,
                 !.final_score = BatchFinalScore(m, q)]

ScoreInBatch(repo) ==
    IF MetricsRaises(repo) THEN repo
    ELSE WithBatchScore(repo, calculate_momentum_score(repo), calculate_quality_score(repo))

\* calculate_all_metrics: per repository try/except; a repository whose
\* calculation raises is skipped and left untouched.
calculate_all_metrics(repos) ==
    [ repos |-> [i \in 1..Len(repos) |-> ScoreInBatch(repos[i])],
      metrics_map |-> { repos[i].id : i \in {j \in 1..Len(repos) : ~MetricsRaises(repos[j])} } ]

(***************************************************************************)
(* hidden_gems_detector.py                                                 *)
(* Text is modelled by the features the detector extracts from it:         *)
(* description = [len, test_kw, innovation_kw, research_kw],               *)
(* topics = [count, test_kw, doc_kw, structure_kw, cutting_edge,           *)
(*           research_kw, ai_topics] (keyword hits and match counts).      *)
(***************************************************************************)

\* Mean of a list of scaled values (np.mean).
Mean(s) == SumSeq(s) \div Len(s)

calculate_code_quality_indicators(repo) ==
    LET testing_score == (IF repo.has_tests THEN 6 ELSE 0)
                         + (IF repo.topics.count > 0 /\ repo.topics.test_kw THEN 2 ELSE 0)
                         + (IF repo.description.len > 0 /\ repo.description.test_kw THEN 2 ELSE 0)
        ci_score == IF repo.has_ci THEN 8 ELSE 0
        doc_readme == IF repo.readme_length > 0
                      THEN (IF repo.readme_length >= 1000 THEN 4
                            ELSE IF repo.readme_length >= 500 THEN 3
                            ELSE IF repo.readme_length >= 200 THEN 2 ELSE 0)
                      ELSE 0
        doc_score == doc_readme
                     + (IF repo.has_documentation THEN 3 ELSE 0)
                     + (IF repo.description.len > 30 THEN 2 ELSE 0)
                     + (IF repo.topics.count > 0 /\ repo.topics.doc_kw THEN 1 ELSE 0)
        org_score == (IF repo.license_name THEN 3 ELSE 0)
                     + (IF repo.topics.count >= 3 THEN 2 ELSE 0)
                     + (IF repo.topics.count > 0 /\ repo.topics.structure_kw THEN 2 ELSE 0)
                     + (IF 100 <= repo.size /\ repo.size <= 50000 THEN 3 ELSE 0)
    IN  << Tenths(Min(testing_score, 10)), Tenths(ci_score),
           Tenths(Min(doc_score, 10)), Tenths(Min(org_score, 10)) >>

calculate_community_engagement(repo) ==
    LET stars == repo.stargazers_count
        contrib_score == IF repo.contributors_count >= 10 THEN Tenths(10)
                         ELSE IF repo.contributors_count >= 5 THEN Tenths(8)
                         ELSE IF repo.contributors_count >= 3 THEN Tenths(6)
                         ELSE IF repo.contributors_count >= 2 THEN Tenths(4)
                         ELSE Tenths(1)
        activity_ratio_score == IF stars > 0
                                THEN Min((repo.contributors_count * 20 * Scale) \div stars, Scale)
                                ELSE 0
        issue_engagement == IF stars > 0 /\ repo.open_issues_count > 0
                            THEN Min((repo.open_issues_count * 10 * Scale) \div stars, Scale)
                            ELSE 0
        fork_engagement == IF stars > 0
                           THEN Min((repo.forks_count * 5 * Scale) \div Max(stars, 1), Scale)
                           ELSE 0
    IN  << contrib_score, activity_ratio_score, issue_engagement, fork_engagement >>

calculate_innovation_potential(repo) ==
    LET novelty_topics == IF repo.topics.count > 0
                          THEN Min(repo.topics.cutting_edge * 20, 80) ELSE 0
        novelty_desc == IF repo.description.len > 0
                        THEN Min(repo.description.innovation_kw * 10, 20) ELSE 0
        research_topics == IF repo.topics.count > 0
                           THEN Min(repo.topics.research_kw * 15, 60) ELSE 0
        research_desc == IF repo.description.len > 0
                         THEN Min(repo.description.research_kw * 10, 40) ELSE 0
    IN  << Hundredths(Min(novelty_topics + novelty_desc, 100)),
           Hundredths(Min(research_topics + research_desc, 100)) >>

calculate_maintenance_quality(repo) ==
    LET days_since_push == DaysSince(repo.pushed_at)
        activity_score == IF days_since_push <= 7 THEN 10
                          ELSE IF days_since_push <= 30 THEN 8
                          ELSE IF days_since_push <= 90 THEN 6
                          ELSE IF days_since_push <= 180 THEN 4
                          ELSE 2
        days_since_update == DaysSince(repo.updated_at)
        consistency_score == IF days_since_update <= days_since_push + 1 THEN 10
                             ELSE IF days_since_update <= 30 THEN 8
                             ELSE 5
        repo_age_days == DaysSince(repo.created_at)
        maturity_score == IF 30 <= repo_age_days /\ repo_age_days <= 365 THEN 10
                          ELSE IF repo_age_days <= 730 THEN 8
                          ELSE IF repo_age_days <= 30 THEN 6
                          ELSE 4
    IN  << Tenths(activity_score), Tenths(consistency_score), Tenths(maturity_score) >>

\* A variant whose star gate also rejects the bound itself.
FailsGateAtBound(repo, criteria) ==
    \/ repo.stargazers_count >= criteria.max_stars
    \/ DaysSince(repo.created_at) > criteria.max_age_days
    \/ repo.contributors_count < criteria.min_contributors
    \/ repo.readme_length < criteria.min_readme_length
    \/ /\ criteria.require_active_maintenance
       /\ DaysSince(repo.pushed_at) > criteria.max_days_since_push

\* The early "return 0.0" tests of calculate_hidden_gem_score.
FailsGate(repo, criteria) ==
    \/ repo.stargazers_count > criteria.max_stars
    \/ DaysSince(repo.created_at) > criteria.max_age_days
    \/ repo.contributors_count < criteria.min_contributors
    \/ repo.readme_length < criteria.min_readme_length
    \/ /\ criteria.require_active_maintenance
       /\ DaysSince(repo.pushed_at) > criteria.max_days_since_push

\* calculate_hidden_gem_score of a detector whose self.criteria is `criteria`.
GemScoreUnder(repo, criteria) ==
    IF FailsGate(repo, criteria) THEN 0
    ELSE LET code_avg == Mean(calculate_code_quality_indicators(repo))
             community_avg == Mean(calculate_community_engagement(repo))
             innovation_avg == Mean(calculate_innovation_potential(repo))
             maintenance_avg == Mean(calculate_maintenance_quality(repo))
             final_score == (code_avg * 30 + community_avg * 25
                             + innovation_avg * 25 + maintenance_avg * 20) \div 100
             star_penalty == Min((repo.stargazers_count * Scale) \div criteria.max_stars,
                                 Scale)
             star_boost == Scale - (star_penalty * 2) \div 10
         IN  Min((final_score * star_boost) \div Scale, Scale)

\* The detector the LeaderboardGenerator builds: HiddenGemsDetector().
calculate_hidden_gem_score(repo) == GemScoreUnder(repo, HiddenGemCriteria)

\* The (repo, score, insights) tuples that pass the threshold, in input order;
\* repo is the position of the Repository object in the list.
GemCandidates(repos) ==
    SelectSeq([i \in 1..Len(repos) |->
                  [repo |-> i, score |-> calculate_hidden_gem_score(repos[i])]],
              LAMBDA c : c.score >= min_quality_score)

\* A variant that leaves the candidates in input order.
KeepInputOrder(candidates) == candidates

\* hidden_gems.sort(key=lambda x: x[1], reverse=True)
SortByGemScore(candidates) ==
    SortDesc([k \in 1..Len(candidates) |->
                 [key |-> candidates[k].score, item |-> candidates[k]]])

detect_hidden_gems(repos, top_k) ==
    Take(SortByGemScore(GemCandidates(repos)), top_k)

(***************************************************************************)
(* clustering_engine.py                                                    *)
(* A dict is a function on the set of its keys.  A repository is seen by   *)
(* the engine as its id and the text extract_text_features builds from it  *)
(* (text = 0: blank; otherwise the version of the README and description). *)
(* The encoder and KMeans are external: the encoder maps a text to one     *)
(* vector or raises; KMeans raises on fewer samples than clusters and      *)
(* otherwise returns some labels below n_clusters.                         *)
(***************************************************************************)
EmptyDict == << >>

\* d.update(new)
Updated(d, new) ==
    [id \in DOMAIN d \cup DOMAIN new |-> IF id \in DOMAIN new THEN new[id] ELSE d[id]]

\* self.model.encode(text)
Encode(text) == [of |-> text]

Faults == {"none", "encode", "dump"}

NoCacheFile == [exists |-> FALSE, loadable |-> FALSE, data |-> EmptyDict]

\* "Load existing cache": self.embeddings_cache once the cache file was read.
CacheAtStart(force_refresh, embeddings_cache, cache_file) ==
    IF ~force_refresh /\ cache_file.exists
    THEN (IF cache_file.loadable THEN cache_file.data ELSE EmptyDict)
    ELSE embeddings_cache

\* A variant that queues every repository with text for encoding.
ToEncodeAll(repos, force_refresh, cache) ==
    SelectSeq([i \in 1..Len(repos) |-> i], LAMBDA i : repos[i].text # 0)

\* "Prepare texts for encoding": positions of the repositories to encode.
ToEncode(repos, force_refresh, cache) ==
    SelectSeq([i \in 1..Len(repos) |-> i],
              LAMBDA i : /\ ~(~force_refresh /\ repos[i].id \in DOMAIN cache)
                         /\ repos[i].text # 0)

\* The embeddings taken from the cache.
CacheHits(repos, force_refresh, cache) ==
    [id \in { repos[i].id : i \in { j \in 1..Len(repos) :
                 ~force_refresh /\ repos[j].id \in DOMAIN cache } } |-> cache[id]]

\* zip(repo_ids_to_encode, new_embeddings); a later duplicate id wins.
NewEmbeddings(repos, to_encode) ==
    [id \in { repos[to_encode[k]].id : k \in 1..Len(to_encode) } |->
        Encode(repos[to_encode[
            CHOOSE k \in 1..Len(to_encode) :
                /\ repos[to_encode[k]].id = id
                /\ \A j \in 1..Len(to_encode) :
                      repos[to_encode[j]].id = id => j <= k]].text)]

\* The end of generate_embeddings, once the cache is loaded and the texts
\* are queued.  fault: what fails in this call, if it is reached.
EmbeddingsFrom(repos, cache, cache_file, hits, to_encode, fault) ==
    IF to_encode = << >>
    THEN [ embeddings |-> hits, cache |-> cache, cache_file |-> cache_file,
           sent |-> << >>, raised |-> FALSE, failed |-> "none" ]
    ELSE IF fault = "encode"
    THEN [ embeddings |-> EmptyDict, cache |-> cache, cache_file |-> cache_file,
           sent |-> [k \in 1..Len(to_encode) |-> repos[to_encode[k]].id],
           raised |-> TRUE, failed |-> "encode" ]
    ELSE IF fault = "dump"
    THEN [ embeddings |-> EmptyDict,
           cache |-> Updated(cache, NewEmbeddings(repos, to_encode)),
           cache_file |-> [exists |-> TRUE, loadable |-> FALSE, data |-> EmptyDict],
           sent |-> [k \in 1..Len(to_encode) |-> repos[to_encode[k]].id],
           raised |-> TRUE, failed |-> "dump" ]
    ELSE [ embeddings |-> Updated(hits, NewEmbeddings(repos, to_encode)),
           cache |-> Updated(cache, NewEmbeddings(repos, to_encode)),
           cache_file |-> [exists |-> TRUE, loadable |-> TRUE,
                           data |-> Updated(cache, NewEmbeddings(repos, to_encode))],
           sent |-> [k \in 1..Len(to_encode) |-> repos[to_encode[k]].id],
           raised |-> FALSE, failed |-> "none" ]

EmbeddingsWith(repos, force_refresh, cache, cache_file, fault) ==
    EmbeddingsFrom(repos, cache, cache_file, CacheHits(repos, force_refresh, cache),
                   ToEncode(repos, force_refresh, cache), fault)

generate_embeddings(repos, force_refresh, embeddings_cache, cache_file, fault) ==
    EmbeddingsWith(repos, force_refresh,
                   CacheAtStart(force_refresh, embeddings_cache, cache_file),
                   cache_file, fault)

\* The values find_optimal_clusters can return for n embeddings.
find_optimal_clusters(n) ==
    IF n < 4 THEN {2} ELSE (2..(Min(15 + 1, n) - 1)) \cup {5}

\* "Fallback: assign all to cluster 0"
AllInClusterZero(repo_ids) == [id \in repo_ids |-> 0]

\* perform_clustering, for the n_clusters in use and the labels KMeans
\* returns if it runs.
perform_clustering(embeddings_dict, n_clusters, labels) ==
    IF DOMAIN embeddings_dict = {} THEN EmptyDict
    ELSE IF Cardinality(DOMAIN embeddings_dict) < 2
    THEN AllInClusterZero(DOMAIN embeddings_dict)
    ELSE IF n_clusters > Cardinality(DOMAIN embeddings_dict)
    THEN AllInClusterZero(DOMAIN embeddings_dict)
    ELSE [id \in DOMAIN embeddings_dict |-> labels[id]]

\* generate_cluster_descriptions: the Cluster objects by cluster id, members
\* in list order.
generate_cluster_descriptions(repos, repo_clusters) ==
    [c \in { repo_clusters[id] : id \in DOMAIN repo_clusters
                                          \cap { repos[i].id : i \in 1..Len(repos) } } |->
        [ id |-> c,
          repos |-> SelectSeq([i \in 1..Len(repos) |-> repos[i].id],
                              LAMBDA id : id \in DOMAIN repo_clusters
                                          /\ repo_clusters[id] = c),
          size |-> Cardinality({ i \in 1..Len(repos) :
                                   repos[i].id \in DOMAIN repo_clusters
                                   /\ repo_clusters[repos[i].id] = c }) ]]

\* "Update repository objects with cluster assignments"
WithClusters(repos, repo_clusters, embeddings_dict) ==
    [i \in 1..Len(repos) |->
        IF repos[i].id \in DOMAIN repo_clusters
        THEN [repos[i] EXCEPT
                !.cluster_id = Some(repo_clusters[repos[i].id]),
                !.readme_embedding = IF repos[i].id \in DOMAIN embeddings_dict
                                     THEN Some(embeddings_dict[repos[i].id]) ELSE @]
        ELSE repos[i]]

ClusteredWith(repos, embedded, repo_clusters) ==
    [ embedded |-> embedded,
      repo_clusters |-> repo_clusters,
      clusters |-> generate_cluster_descriptions(repos, repo_clusters),
      repos |-> WithClusters(repos, repo_clusters, embedded.embeddings) ]

\* cluster_repositories, given what the call's generate_embeddings returned.
ClusterFrom(repos, embedded, n_clusters, labels) ==
    IF DOMAIN embedded.embeddings = {}
    THEN [ embedded |-> embedded, repo_clusters |-> EmptyDict, clusters |-> EmptyDict,
           repos |-> repos ]
    ELSE ClusteredWith(repos, embedded,
                       perform_clustering(embedded.embeddings, n_clusters, labels))

cluster_repositories(repos, n_clusters, labels, embeddings_cache, cache_file, fault) ==
    ClusterFrom(repos,
                generate_embeddings(repos, FALSE, embeddings_cache, cache_file, fault),
                n_clusters, labels)

(***************************************************************************)
(* leaderboard_generator.py                                                *)
(* A LeaderboardEntry of a leaderboard in memory references its Repository *)
(* object: entry.repository is the object's position in the caller's list. *)
(* An entry of a snapshot loaded from disk holds its repository by value.  *)
(***************************************************************************)

\* Position of the first repository of the list that is in cluster c.
FirstMember(repos, repo_clusters, c) ==
    CHOOSE i \in 1..Len(repos) :
        /\ repos[i].id \in DOMAIN repo_clusters /\ repo_clusters[repos[i].id] = c
        /\ \A j \in 1..(i - 1) :
              ~(repos[j].id \in DOMAIN repo_clusters /\ repo_clusters[repos[j].id] = c)

\* list(clusters_dict.values()): the clusters in the insertion order of the
\* dict, which is the order of their first members in the repository list.
ClusterValues(repos, repo_clusters, clusters_dict) ==
    [k \in 1..Cardinality(DOMAIN clusters_dict) |->
        clusters_dict[CHOOSE c \in DOMAIN clusters_dict :
            Cardinality({ d \in DOMAIN clusters_dict :
                            FirstMember(repos, repo_clusters, d)
                                <= FirstMember(repos, repo_clusters, c) }) = k]]

\* A variant that returns the clusters in dict order, unsorted.
ClustersUnsorted(values) == values

\* clusters.sort(key=lambda x: x.size, reverse=True)
SortBySize(values) ==
    SortDesc([k \in 1..Len(values) |-> [key |-> values[k].size, item |-> values[k]]])

\* generate_clusters, given what cluster_repositories returned.
generate_clusters(repos, clustering) ==
    SortBySize(ClusterValues(repos, clustering.repo_clusters, clustering.clusters))

TRENDING_TOP == 50
ESTABLISHED_TOP == 30
HIDDEN_GEMS_TOP_K == 20

Indices(repos) == [i \in 1..Len(repos) |-> i]

\* Variant of the lookup that is handed the entry tag "hidden_gem" where the
\* Leaderboard attribute is "hidden_gems": getattr falls back to [].
PreviousEntriesByTag(previous_leaderboard, category) ==
    IF category = "hidden_gems" THEN << >>
    ELSE IF category \in DOMAIN previous_leaderboard
    THEN previous_leaderboard[category] ELSE << >>

\* getattr(previous_leaderboard, category, [])
PreviousEntries(previous_leaderboard, category) ==
    IF category \in DOMAIN previous_leaderboard
    THEN previous_leaderboard[category] ELSE << >>

\* previous_positions = {entry.repository.id: entry.rank ...}: the last entry
\* with a given id wins.
PreviousPositions(previous_entries, repo_id) ==
    LET hits == { k \in 1..Len(previous_entries) : previous_entries[k].repository.id = repo_id }
    IN  IF hits = {} THEN None
        ELSE Some(previous_entries[CHOOSE k \in hits : \A j \in hits : j <= k].rank)

\* Variant with the operands of the difference swapped.
PositionChangeReversed(previous_rank, rank) == rank - previous_rank

PositionChange(previous_rank, rank) == previous_rank - rank

ChangedEntry(entry, prev) ==
    [entry EXCEPT !.change_from_previous =
        IF IsNone(prev) THEN None ELSE Some(PositionChange(Get(prev), entry.rank))]

ChangesAgainst(current_entries, previous_entries, repos) ==
    [k \in 1..Len(current_entries) |->
        ChangedEntry(current_entries[k],
                     PreviousPositions(previous_entries,
                                       repos[current_entries[k].repository].id))]

calculate_position_changes(current_entries, previous_leaderboard, category, repos) ==
    IF IsNone(previous_leaderboard) THEN current_entries
    ELSE ChangesAgainst(current_entries,
                        PreviousEntries(Get(previous_leaderboard), category), repos)

LeaderboardEntry(rank, i, repos, category) ==
    [ rank |-> rank,
      repository |-> i,
      metrics |-> calculate_repository_metrics(repos[i]),
      category |-> category,
      change_from_previous |-> None ]

\* Variant that numbers the entries as enumerate(selected) does, from 0.
RankEntriesFromZero(selected, repos, category) ==
    [k \in 1..Len(selected) |-> LeaderboardEntry(k - 1, selected[k], repos, category)]

\* enumerate(selected, 1)
FirstRank == 1
RankEntries(selected, repos, category) ==
    [k \in 1..Len(selected) |->
        LeaderboardEntry(FirstRank + k - 1, selected[k], repos, category)]

\* repos.sort(key=lambda x: x.final_score, reverse=True) on object positions.
SortByFinalScore(selected, repos) ==
    SortDesc([k \in 1..Len(selected) |->
                 [key |-> repos[selected[k]].final_score, item |-> selected[k]]])

\* The tail shared by the trending and established builders: sort, cut,
\* rank, compare with the previous snapshot.
RankedCategory(selected, scored, top, tag, category, previous_leaderboard) ==
    [ repos |-> scored,
      entries |-> calculate_position_changes(
                    RankEntries(Take(SortByFinalScore(selected, scored), top), scored, tag),
                    previous_leaderboard, category, scored) ]

TrendingEligible(repo) ==
    /\ repo.stargazers_count >= 100
    /\ repo.stargazers_count <= 10000
    /\ DaysSince(repo.pushed_at) <= 90
    /\ DaysSince(repo.created_at) >= 30

TrendingScore(momentum, quality) == (momentum * 7) \div 10 + quality * 3

WithTrendingScore(repo, m, q) ==
    [repo EXCEPT !.momentum_score = m, !.quality_score = q,
                 !.final_score = TrendingScore(m, q)]

\* "if repo.final_score == 0.0": only a repository not scored yet is scored here.
ScoreForTrending(repo) ==
    IF repo.final_score = 0
    THEN WithTrendingScore(repo, calculate_momentum_score(repo), calculate_quality_score(repo))
    ELSE repo

create_trending_leaderboard(repos, previous_leaderboard) ==
    RankedCategory(SelectSeq(Indices(repos), LAMBDA i : TrendingEligible(repos[i])),
                   [i \in 1..Len(repos) |->
                       IF TrendingEligible(repos[i]) THEN ScoreForTrending(repos[i])
                       ELSE repos[i]],
                   TRENDING_TOP, "trending", "trending", previous_leaderboard)

\* Variants of the established filter: a strict star bound, and a star bound
\* of 50.
EstablishedEligibleStrict(repo) ==
    /\ repo.stargazers_count > 5000
    /\ DaysSince(repo.created_at) >= 180

EstablishedEligibleLow(repo) ==
    /\ repo.stargazers_count >= 50
    /\ DaysSince(repo.created_at) >= 180

EstablishedEligible(repo) ==
    /\ repo.stargazers_count >= 5000
    /\ DaysSince(repo.created_at) >= 180

EstablishedScore(momentum, quality, stars) ==
    (momentum * 3) \div 10 + quality * 5 + (stars * Scale) \div 10000

WithEstablishedScore(repo, m, q) ==
    [repo EXCEPT !.momentum_score = m, !.quality_score = q,
                 !.final_score = EstablishedScore(m, q, repo.stargazers_count)]

ScoreForEstablished(repo) ==
    IF repo.final_score = 0
    THEN WithEstablishedScore(repo, calculate_momentum_score(repo),
                              calculate_quality_score(repo))
    ELSE repo

\* now = datetime.utcnow() is naive and repo.created_at is not coerced:
\* "now - repo.created_at" raises TypeError for a timezone-aware created_at.
EstablishedRaises(repos) == \E i \in 1..Len(repos) : repos[i].created_at.aware

create_established_leaderboard(repos, previous_leaderboard) ==
    RankedCategory(SelectSeq(Indices(repos), LAMBDA i : EstablishedEligible(repos[i])),
                   [i \in 1..Len(repos) |->
                       IF EstablishedEligible(repos[i]) THEN ScoreForEstablished(repos[i])
                       ELSE repos[i]],
                   ESTABLISHED_TOP, "established", "established", previous_leaderboard)

\* The loop over the detector's results writes repo.final_score = score and
\* then builds the entry with calculate_repository_metrics(repo), which is
\* not guarded: the first result whose metrics raise ends the loop.
\* Position of that result, 0 if there is none.
GemsRaiseAt(results, repos) ==
    IF \A k \in 1..Len(results) : ~MetricsRaises(repos[results[k].repo]) THEN 0
    ELSE CHOOSE k \in 1..Len(results) :
            /\ MetricsRaises(repos[results[k].repo])
            /\ \A j \in 1..(k - 1) : ~MetricsRaises(repos[results[j].repo])

\* repo.final_score = score for the first `done` results.
WithGemScores(repos, results, done) ==
    [i \in 1..Len(repos) |->
        IF \E k \in 1..done : results[k].repo = i
        THEN [repos[i] EXCEPT !.final_score =
                 results[CHOOSE k \in 1..done : results[k].repo = i].score]
        ELSE repos[i]]

GemEntries(results, scored, stop, previous_leaderboard) ==
    [ raised |-> stop # 0,
      repos |-> scored,
      entries |-> IF stop # 0 THEN << >>
                  ELSE calculate_position_changes(
                         RankEntries([k \in 1..Len(results) |-> results[k].repo],
                                     scored, "hidden_gem"),
                         previous_leaderboard, "hidden_gems", scored) ]

GemsLoop(repos, results, stop, previous_leaderboard) ==
    GemEntries(results,
               WithGemScores(repos, results, IF stop = 0 THEN Len(results) ELSE stop),
               stop, previous_leaderboard)

GemsFrom(repos, results, previous_leaderboard) ==
    GemsLoop(repos, results, GemsRaiseAt(results, repos), previous_leaderboard)

create_hidden_gems_leaderboard(repos, previous_leaderboard) ==
    GemsFrom(repos, detect_hidden_gems(repos, HIDDEN_GEMS_TOP_K), previous_leaderboard)

\* max(repo.updated_at ...) and "now - most_recent_update" with the naive
\* datetime.utcnow(): TypeError as soon as an updated_at is timezone-aware.
FreshnessRaises(repos) == \E i \in 1..Len(repos) : repos[i].updated_at.aware

\* Hours since the most recent update, at the day granularity of the model.
calculate_data_freshness(repos) ==
    IF repos = << >> THEN 0
    ELSE 24 * Scale * DaysSince(repos[CHOOSE i \in 1..Len(repos) :
               \A j \in 1..Len(repos) :
                   DaysSince(repos[i].updated_at) <= DaysSince(repos[j].updated_at)].updated_at)

Raised(error, repos, ids) ==
    [ outcome |-> "raised", error |-> error, repos |-> repos,
      metrics_map |-> ids, leaderboard |-> None ]

Returned(repos, ids, trending, established, hidden_gems, clusters, total, now) ==
    [ outcome |-> "returned",
      error |-> "",
      repos |-> repos,
      metrics_map |-> ids,
      leaderboard |-> Some(
        [ generated_at |-> [second |-> now, aware |-> FALSE],
          trending |-> trending,
          established |-> established,
          hidden_gems |-> hidden_gems,
          clusters |-> clusters,
          total_repos_analyzed |-> total,
          data_freshness_hours |-> calculate_data_freshness(repos) ]) ]

\* generate_leaderboard, statement by statement; an exception leaves the
\* repositories as the statements before it wrote them.
AfterHiddenGems(ids, trending, established, hidden_gems, clusters, total, now) ==
    IF hidden_gems.raised THEN Raised("ValueError", hidden_gems.repos, ids)
    ELSE IF FreshnessRaises(hidden_gems.repos)
    THEN Raised("TypeError", hidden_gems.repos, ids)
    ELSE Returned(hidden_gems.repos, ids, trending.entries, established.entries,
                  hidden_gems.entries, clusters, total, now)

AfterEstablished(ids, trending, established, previous_leaderboard, clusters, total, now) ==
    AfterHiddenGems(ids, trending, established,
                    create_hidden_gems_leaderboard(established.repos, previous_leaderboard),
                    clusters, total, now)

AfterTrending(ids, trending, previous_leaderboard, clusters, total, now) ==
    IF EstablishedRaises(trending.repos) THEN Raised("TypeError", trending.repos, ids)
    ELSE AfterEstablished(ids, trending,
                          create_established_leaderboard(trending.repos, previous_leaderboard),
                          previous_leaderboard, clusters, total, now)

AfterAllMetrics(batch, previous_leaderboard, clusters, total, now) ==
    AfterTrending(batch.metrics_map,
                  create_trending_leaderboard(batch.repos, previous_leaderboard),
                  previous_leaderboard, clusters, total, now)

\* generate_leaderboard, with the snapshot load_previous_leaderboard() found
\* and the cluster list of the clustering engine as inputs.
generate_leaderboard(repositories, include_clustering, cluster_list, previous_leaderboard, now) ==
    AfterAllMetrics(calculate_all_metrics(repositories), previous_leaderboard,
                    IF include_clustering THEN cluster_list ELSE << >>,
                    Len(repositories), now)

(***************************************************************************)
(* leaderboard_generator.py: update_leaderboard_with_historical_data       *)
(* historical_data maps a repository id to its stars_growth_30d.           *)
(***************************************************************************)

\* min(1.0 + stars_growth_30d / max(stargazers_count, 1), 2.0), in hundredths.
GrowthFactor(stars_growth_30d, stars) ==
    Min(100 + (stars_growth_30d * 100) \div Max(stars, 1), 200)

\* entry.repository.final_score *= min(growth_factor, 2.0), entry by entry:
\* a repository that two lists reference is boosted once per entry.
RECURSIVE BoostFrom(_, _, _, _)
BoostFrom(repos, all_entries, k, historical_data) ==
    IF k > Len(all_entries) THEN repos
    ELSE IF repos[all_entries[k].repository].id \notin DOMAIN historical_data
    THEN BoostFrom(repos, all_entries, k + 1, historical_data)
    ELSE BoostFrom(
           [repos EXCEPT ![all_entries[k].repository].final_score =
               (@ * GrowthFactor(historical_data[repos[all_entries[k].repository].id],
                                 repos[all_entries[k].repository].stargazers_count))
                   \div 100],
           all_entries, k + 1, historical_data)

\* "Update growth metrics"
WithGrowth(entry, repos, historical_data) ==
    IF repos[entry.repository].id \in DOMAIN historical_data
    THEN [entry EXCEPT !.metrics.stars_growth_30d = historical_data[repos[entry.repository].id],
                       !.metrics.stars_growth_7d = 0,
                       !.metrics.commit_frequency_30d = 0]
    ELSE entry

\* "Update ranks": entry.rank = rank in the new order; nothing else of the
\* entry is written.
Reranked(entries, order) ==
    [k \in 1..Len(order) |-> [entries[order[k]] EXCEPT !.rank = k]]

\* category.sort(key=lambda x: x.repository.final_score, reverse=True)
SortEntriesByScore(entries, repos) ==
    SortDesc([k \in 1..Len(entries) |->
                 [key |-> repos[entries[k].repository].final_score, item |-> k]])

ResortedCategory(entries, repos, historical_data) ==
    Reranked([k \in 1..Len(entries) |-> WithGrowth(entries[k], repos, historical_data)],
             SortEntriesByScore(entries, repos))

UpdatedWith(leaderboard, boosted, historical_data) ==
    [ repos |-> boosted,
      leaderboard |->
        [leaderboard EXCEPT
           !.trending = ResortedCategory(@, boosted, historical_data),
           !.established = ResortedCategory(@, boosted, historical_data),
           !.hidden_gems = ResortedCategory(@, boosted, historical_data)] ]

\* "if not historical_data: return leaderboard"
update_leaderboard_with_historical_data(leaderboard, repos, historical_data) ==
    IF DOMAIN historical_data = {} THEN [repos |-> repos, leaderboard |-> leaderboard]
    ELSE UpdatedWith(leaderboard,
                     BoostFrom(repos,
                               leaderboard.trending \o leaderboard.established
                                   \o leaderboard.hidden_gems,
                               1, historical_data),
                     historical_data)

(***************************************************************************)
(* metrics_calculator.py: rank_repositories                                *)
(* The lists hold the positions of the repositories in the input list.     *)
(***************************************************************************)
RANK_TRENDING_TOP == 50
RANK_ESTABLISHED_TOP == 30
RANK_HIDDEN_GEMS_TOP == 20

\* Position of the first repository whose scoring raises in the first loop
\* (only an unscored repository is scored), 0 if there is none.
RankScoreStop(repos) ==
    IF \A i \in 1..Len(repos) : ~(repos[i].final_score = 0 /\ MetricsRaises(repos[i]))
    THEN 0
    ELSE CHOOSE i \in 1..Len(repos) :
            /\ repos[i].final_score = 0 /\ MetricsRaises(repos[i])
            /\ \A j \in 1..(i - 1) :
                  ~(repos[j].final_score = 0 /\ MetricsRaises(repos[j]))

\* "if repo.final_score == 0.0": a repository that carries a score keeps it.
RankScore(repo) ==
    IF repo.final_score = 0
    THEN WithBatchScore(repo, calculate_momentum_score(repo), calculate_quality_score(repo))
    ELSE repo

RankScored(repos, stop) ==
    [i \in 1..Len(repos) |->
        IF stop = 0 \/ i < stop THEN RankScore(repos[i]) ELSE repos[i]]

\* if hidden_gem_score > 0.5 ... elif stargazers_count >= 5000 ... else
RankCategory(repo) ==
    IF calculate_hidden_gem_potential(repo) > Scale \div 2 THEN "hidden_gems"
    ELSE IF repo.stargazers_count >= 5000 THEN "established"
    ELSE "trending"

\* A variant whose last two tests are "if" and "else" of their own: whatever
\* is no hidden gem also lands in the trending list.
RankSelectWithoutElif(repos, category) ==
    SelectSeq(Indices(repos),
              LAMBDA i : IF category = "hidden_gems"
                         THEN calculate_hidden_gem_potential(repos[i]) > Scale \div 2
                         ELSE IF category = "established"
                         THEN repos[i].stargazers_count >= 5000
                         ELSE calculate_hidden_gem_potential(repos[i]) <= Scale \div 2)

RankSelect(repos, category) ==
    SelectSeq(Indices(repos), LAMBDA i : RankCategory(repos[i]) = category)

\* hidden_gems.sort(key=calculate_hidden_gem_potential, reverse=True)
SortByPotential(selected, repos) ==
    SortDesc([k \in 1..Len(selected) |->
                 [key |-> calculate_hidden_gem_potential(repos[selected[k]]),
                  item |-> selected[k]]])

RankedFrom(scored, raised) ==
    [ raised |-> raised,
      repos |-> scored,
      trending |-> IF raised THEN << >>
                   ELSE Take(SortByFinalScore(RankSelect(scored, "trending"), scored),
                             RANK_TRENDING_TOP),
      established |-> IF raised THEN << >>
                      ELSE Take(SortByFinalScore(RankSelect(scored, "established"), scored),
                                RANK_ESTABLISHED_TOP),
      hidden_gems |-> IF raised THEN << >>
                      ELSE Take(SortByPotential(RankSelect(scored, "hidden_gems"), scored),
                                RANK_HIDDEN_GEMS_TOP) ]

RankedAfter(repos, stop) ==
    RankedFrom(RankScored(repos, stop),
               stop # 0 \/ \E i \in 1..Len(repos) : PotentialRaises(repos[i]))

rank_repositories(repos) == RankedAfter(repos, RankScoreStop(repos))

(***************************************************************************)
(* Snapshot store: data/leaderboard_<YYYYmmdd_HHMMSS>.json                 *)
(* A file is [name, mtime, parsable, data]; name is the second of the wall *)
(* clock its default file name is built from.                              *)
(***************************************************************************)

\* datetime.isoformat() / the parsing of an ISO-8601 string by the model class.
IsoFormat(t) == [iso |-> t]
FromIso(str) == str.iso

DumpRepository(repo) ==
    [repo EXCEPT !.created_at = IsoFormat(@), !.updated_at = IsoFormat(@),
                 !.pushed_at = IsoFormat(@)]

ParseRepository(data) ==
    [data EXCEPT !.created_at = FromIso(@), !.updated_at = FromIso(@),
                 !.pushed_at = FromIso(@)]

\* leaderboard.model_dump() followed by convert_datetime: entries hold their
\* repository by value, datetimes become strings.
DumpEntries(entries, repos) ==
    [k \in 1..Len(entries) |->
        [entries[k] EXCEPT !.repository = DumpRepository(repos[entries[k].repository])]]

ParseEntries(data) ==
    [k \in 1..Len(data) |-> [data[k] EXCEPT !.repository = ParseRepository(@)]]

DumpLeaderboard(leaderboard, repos) ==
    [leaderboard EXCEPT !.generated_at = IsoFormat(@),
                        !.trending = DumpEntries(@, repos),
                        !.established = DumpEntries(@, repos),
                        !.hidden_gems = DumpEntries(@, repos)]

\* Leaderboard(**data)
ParseLeaderboard(data) ==
    [data EXCEPT !.generated_at = FromIso(@),
                 !.trending = ParseEntries(@),
                 !.established = ParseEntries(@),
                 !.hidden_gems = ParseEntries(@)]

\* max(leaderboard_files, key=lambda f: f.stat().st_mtime)
MostRecent(files) == CHOOSE f \in files : \A g \in files : g.mtime <= f.mtime

ReadSnapshot(found) ==
    IF found = {} THEN None
    ELSE IF (CHOOSE f \in found : TRUE).parsable
    THEN Some(ParseLeaderboard((CHOOSE f \in found : TRUE).data))
    ELSE None

OpenNamed(name, files) ==
    IF IsNone(name) THEN None
    ELSE ReadSnapshot({ f \in files : f.name = Get(name) })

\* Variant that skips unparsable snapshots and loads the newest parsable one.
load_latest_parsable(filename, files) ==
    OpenNamed(IF IsNone(filename)
              THEN (IF { f \in files : f.parsable } = {} THEN None
                    ELSE Some(MostRecent({ f \in files : f.parsable }).name))
              ELSE filename,
              files)

load_previous_leaderboard(filename, files) ==
    OpenNamed(IF IsNone(filename)
              THEN (IF files = {} THEN None ELSE Some(MostRecent(files).name))
              ELSE filename,
              files)

\* save_leaderboard with the default file name: open(filepath, 'w') replaces a
\* file of the same name.
save_leaderboard(leaderboard, repos, files, now) ==
    { f \in files : f.name # now }
      \cup { [ name |-> now, mtime |-> now, parsable |-> TRUE,
               data |-> DumpLeaderboard(leaderboard, repos) ] }

\* The keys stats['position_changes'] is created with.
PositionChangeKeys ==
    { << "trending", "new" >>, << "trending", "up" >>, << "trending", "down" >>,
      << "established", "new" >>, << "established", "up" >>,
      << "established", "down" >>, << "hidden_gems", "new" >> }

\* The key suffix generate_summary_stats counts an entry under; "same" for an
\* entry with a change of 0, which it does not count.
ChangeKind(entry) ==
    IF IsNone(entry.change_from_previous) THEN "new"
    ELSE IF Get(entry.change_from_previous) > 0 THEN "up"
    ELSE IF Get(entry.change_from_previous) < 0 THEN "down"
    ELSE "same"

\* stats['position_changes'][f'{category}_{kind}'] += 1 raises KeyError for a
\* key the dict was not created with.
SummaryRaises(leaderboard) ==
    \E category \in {"trending", "established", "hidden_gems"} :
        \E k \in 1..Len(leaderboard[category]) :
            /\ ChangeKind(leaderboard[category][k]) # "same"
            /\ << category, ChangeKind(leaderboard[category][k]) >> \notin PositionChangeKeys

\* generate_summary_stats, without the language and topic tables (built from
\* repository text, which raises nothing).
generate_summary_stats(leaderboard) ==
    IF SummaryRaises(leaderboard)
    THEN [ raised |-> TRUE, error |-> "KeyError", stats |-> None ]
    ELSE [ raised |-> FALSE, error |-> "",
           stats |-> Some(
             [ generation_time |-> IsoFormat(leaderboard.generated_at),
               total_repositories |-> leaderboard.total_repos_analyzed,
               data_freshness_hours |-> leaderboard.data_freshness_hours,
               categories |-> [ trending |-> Len(leaderboard.trending),
                                established |-> Len(leaderboard.established),
                                hidden_gems |-> Len(leaderboard.hidden_gems) ],
               clusters |-> Len(leaderboard.clusters),
               position_changes |->
                 [ key \in PositionChangeKeys |->
                     Cardinality({ k \in 1..Len(leaderboard[key[1]]) :
                                     ChangeKind(leaderboard[key[1]][k]) = key[2] }) ] ]) ]

(***************************************************************************)
(* Repository records fed to the generator                                 *)
(***************************************************************************)
NoText == [len |-> 0, test_kw |-> FALSE, innovation_kw |-> 0, research_kw |-> 0]
NoTopics == [count |-> 0, test_kw |-> FALSE, doc_kw |-> FALSE, structure_kw |-> FALSE,
             cutting_edge |-> 0, research_kw |-> 0, ai_topics |-> 0]
\* "novel new research paper benchmark testing model dataset"
RichText == [len |-> 56, test_kw |-> TRUE, innovation_kw |-> 2, research_kw |-> 5]
\* llm, rag, transformer, diffusion, research-paper, benchmark-dataset,
\* model-evaluation, testing, docs, api
RichTopics == [count |-> 10, test_kw |-> TRUE, doc_kw |-> TRUE, structure_kw |-> TRUE,
               cutting_edge |-> 4, research_kw |-> 6, ai_topics |-> 2]

\* A Repository as the scraper or a fixture builds it: scores start at 0.0.
\* rich: a well documented, tested, licensed project with ten contributors;
\* otherwise a bare one.  text: the version of the text extract_text_features
\* builds from the name, description, topics and README (a GitHub repository
\* has a name, so the text is not blank).
Repository(id, stars, created_days, pushed_days, updated_days, aware, rich) ==
    [ id |-> id,
      description |-> IF rich THEN RichText ELSE NoText,
      stargazers_count |-> stars,
      watchers_count |-> 0,
      forks_count |-> IF rich /\ stars > 0 THEN stars \div 5 ELSE 0,
      open_issues_count |-> IF rich /\ stars > 0 THEN stars \div 10 ELSE 0,
      size |-> 1500,
      topics |-> IF rich THEN RichTopics ELSE NoTopics,
      license_name |-> rich,
      created_at |-> Timestamp(created_days, aware),
      updated_at |-> Timestamp(updated_days, aware),
      pushed_at |-> Timestamp(pushed_days, aware),
      contributors_count |-> IF rich THEN 10 ELSE 0,
      readme_length |-> IF rich THEN 1000 ELSE 0,
      has_ci |-> rich,
      has_tests |-> rich,
      has_documentation |-> rich,
      momentum_score |-> 0,
      quality_score |-> 0,
      final_score |-> 0,
      text |-> 1,
      cluster_id |-> None,
      readme_embedding |-> None ]

\* The same statistics on a new object (a rescrape, load_repositories).
Fresh(repo) ==
    [repo EXCEPT !.momentum_score = 0, !.quality_score = 0, !.final_score = 0,
                 !.cluster_id = None, !.readme_embedding = None]
FreshAll(repos) == [i \in 1..Len(repos) |-> Fresh(repos[i])]

MaxRepos == 2
Variants == {1, 2}

\* Fixture feed (naive datetimes, as test_pipeline.py builds them): the two
\* states each repository id can be scraped in.
\*   slot 1: a young bare project with 10000 stars (trending only), later a
\*           mature well kept one (trending and established);
\*   slot 2: a well kept project with 100 stars (trending and hidden gem),
\*           or one with 85 stars (hidden gem only);
\*   slot 3: the 5000 stars / 180 days corner, or a large old project.
FixtureOption(id, v) ==
    LET slot == ((id - 1) % 3) + 1
    IN  CASE slot = 1 /\ v = 1 -> Repository(id, 10000, 30, 1, 1, FALSE, FALSE)
          [] slot = 1 /\ v = 2 -> Repository(id, 10000, 400, 90, 1, FALSE, TRUE)
          [] slot = 2 /\ v = 1 -> Repository(id, 100, 700, 1, 1, FALSE, TRUE)
          [] slot = 2 /\ v = 2 -> Repository(id, 85, 200, 1, 1, FALSE, TRUE)
          [] slot = 3 /\ v = 1 -> Repository(id, 5000, 180, 1, 1, FALSE, FALSE)
          [] slot = 3 /\ v = 2 -> Repository(id, 100000, 2000, 200, 200, FALSE, TRUE)

\* Faulty feed.  State 1: healthy repositories next to one whose star count
\* is -1 (math.log(stars + 1) raises) and that no filter selects.  State 2: a
\* well kept repository with -1 stars, which the hidden-gem detector selects.
\* State 3: timezone-aware datetimes, as the scraper parses them from "...Z".
FaultyVariants == {1, 2, 3}

FaultyOption(id, v) ==
    LET slot == ((id - 1) % 3) + 1
    IN  CASE slot = 1 /\ v = 1 -> Repository(id, 100, 60, 1, 1, FALSE, TRUE)
          [] slot = 1 /\ v = 2 -> Repository(id, -1, 60, 1, 1, FALSE, TRUE)
          [] slot = 1 /\ v = 3 -> Repository(id, 10000, 400, 90, 1, TRUE, TRUE)
          [] slot = 2 /\ v = 1 -> Repository(id, -1, 60, 1, 1, FALSE, FALSE)
          [] slot = 2 /\ v = 2 -> Repository(id, 10000, 400, 90, 1, FALSE, TRUE)
          [] slot = 2 /\ v = 3 -> Repository(id, 85, 60, 1, 1, TRUE, TRUE)
          [] slot = 3 /\ v = 1 -> Repository(id, 10000, 400, 90, 1, FALSE, TRUE)
          [] slot = 3 /\ v = 2 -> Repository(id, 85, 60, 1, 1, FALSE, TRUE)
          [] slot = 3 /\ v = 3 -> Repository(id, 100, 60, 1, 1, TRUE, TRUE)

\* The lists a feed delivers: its first n repositories, all in state v.
FixtureInputs ==
    { [i \in 1..n |-> FixtureOption(i, v)] : n \in 0..MaxRepos, v \in Variants }

FaultyInputs ==
    { [i \in 1..n |-> FaultyOption(i, v)] : n \in 0..MaxRepos, v \in FaultyVariants }

\* Boundary feed: one repository on either side of every eligibility bound.
BoundaryStars == {99, 100, 4999, 5000, 10000, 10001}
BoundaryAges == {29, 30, 179, 180}
BoundaryPushes == {90, 91}

BoundaryInputs ==
    { << Repository(1, stars, age, push, 1, FALSE, FALSE) >> :
        stars \in BoundaryStars, age \in BoundaryAges, push \in BoundaryPushes }

\* Bulk feed: more qualifying repositories than any list holds.  The first
\* block of ids are mature projects with 10000 stars (trending and
\* established), the others well kept projects with 100 stars (trending and
\* hidden gem); state 2 swaps the blocks.
MaxBulk == 52

BulkOption(id, v) ==
    IF (v = 1 /\ id <= ESTABLISHED_TOP + 1) \/ (v = 2 /\ id > HIDDEN_GEMS_TOP_K + 1)
    THEN Repository(id, 10000, 400, 90, 1, FALSE, TRUE)
    ELSE Repository(id, 100, 60, 1, 1, FALSE, TRUE)

BulkInputs ==
    { [i \in 1..n |-> BulkOption(i, v)] : n \in 0..MaxBulk, v \in Variants }

(***************************************************************************)
(* State                                                                   *)
(***************************************************************************)
VARIABLES
    repositories,          \* the caller's list of Repository objects
    data_dir,              \* the leaderboard_*.json files
    clock,                 \* wall clock, in seconds
    leaderboard,           \* the Leaderboard the last generate_leaderboard returned
    outcome,               \* how the last generate_leaderboard call ended
    previous_leaderboard,  \* what that call's load_previous_leaderboard() returned
    metrics_map,           \* ids in that call's metrics_map
    loaded,                \* what load_previous_leaderboard(filename) just returned
    calls                  \* number of generate_leaderboard calls so far

\* The scoring functions called on their own (test_analysis_components).
VARIABLES
    criteria,              \* self.criteria of the HiddenGemsDetector
    today,                 \* days of wall clock elapsed since the start
    scored                 \* the results of the scoring calls made so far

scoring_vars == << criteria, today, scored >>

\* The detector called on its own (hidden_gems_detector.detect_hidden_gems).
VARIABLES
    detected               \* top_k and result of the last detect_hidden_gems call

NotDetected == [called |-> FALSE, top_k |-> 0, result |-> << >>]

\* The ClusteringEngine and its cache of embeddings.
VARIABLES
    embeddings_cache,      \* self.embeddings_cache
    cache_file,            \* data/embeddings/embeddings_cache.pkl
    embedded,              \* the last generate_embeddings call and what it returned
    clustered              \* the last cluster_repositories call and what it returned

cluster_vars == << embeddings_cache, cache_file, embedded, clustered >>

NotEmbedded ==
    [ called |-> FALSE, force_refresh |-> FALSE, cache_before |-> EmptyDict,
      embeddings |-> EmptyDict, sent |-> << >>, raised |-> FALSE,
      load_failed |-> FALSE, failed |-> "none" ]
NotClustered ==
    [ called |-> FALSE, n_clusters |-> 0, repo_clusters |-> EmptyDict,
      clusters |-> EmptyDict ]

\* The summary of a leaderboard (generator.generate_summary_stats).
VARIABLES
    summary                \* what the last generate_summary_stats call returned

NotSummarised ==
    [called |-> FALSE, leaderboard |-> None, raised |-> FALSE, error |-> "", stats |-> None]

\* The ranking functions called on their own, on the caller's objects.
VARIABLES
    ranked                 \* the last ranking call, its input and what it returned

NotRanked ==
    [ called |-> "none", input |-> << >>, raised |-> FALSE,
      trending |-> << >>, established |-> << >>, hidden_gems |-> << >> ]

\* The leaderboard after its scores were boosted with historical growth data.
VARIABLES
    history                \* the last update_leaderboard_with_historical_data call

NotUpdated ==
    [ updates |-> 0, historical_data |-> << >>, before |-> None, previous |-> None,
      repos |-> << >>, leaderboard |-> None ]

\* The LeaderboardScheduler, the threads that run inside it and its callers.
VARIABLES
    is_running,            \* self.is_running
    current_job,           \* self.current_job: the ScrapingJob it points to, or None
    scheduler_thread,      \* self.scheduler_thread: the thread of the last start
    jobs_history,          \* self.jobs_history: the dumps of the finished jobs
    jobs,                  \* the ScrapingJob objects created so far
    threads,               \* where each loop thread and each caller stands
    joining                \* a stop_scheduler call waits in scheduler_thread.join

scheduler_vars == << is_running, current_job, scheduler_thread, jobs_history, jobs,
                     threads, joining >>

MaxLoops == 2
MaxCallers == 1
MaxJobs == 2

\* Threads started by start_scheduler, and threads that call force_update_now.
LoopThreads == 1..MaxLoops
Callers == (MaxLoops + 1)..(MaxLoops + MaxCallers)
ThreadIds == LoopThreads \cup Callers

\* A thread outside every call: a loop thread not started yet, a caller at rest.
NotStarted(t) ==
    [ pc |-> IF t \in LoopThreads THEN "unborn" ELSE "idle",
      job |-> None, result |-> "none" ]

InitScheduler ==
    /\ is_running = FALSE
    /\ current_job = None
    /\ scheduler_thread = None
    /\ jobs_history = << >>
    /\ jobs = << >>
    /\ threads = [t \in ThreadIds |-> NotStarted(t)]
    /\ joining = FALSE

\* The GitHubClient and its caller.
VARIABLES
    client,                \* self.rate_limit_remaining and self.rate_limit_reset
    request                \* the _make_request call: its place, its loop variable,
                           \* the responses it got and how it ended

client_vars == << client, request >>

NotRequested ==
    [ pc |-> "idle", attempt |-> 0, gets |-> 0, responses |-> << >>,
      result |-> "none", calls |-> 0 ]

InitClient ==
    /\ client = [rate_limit_remaining |-> None, rate_limit_reset |-> None]
    /\ request = NotRequested

rest_vars == << history, scheduler_vars, client_vars >>

InitRest ==
    /\ history = NotUpdated
    /\ InitScheduler
    /\ InitClient

pipeline_vars == << repositories, data_dir, clock, leaderboard, outcome,
                    previous_leaderboard, metrics_map, loaded, calls >>

\* What the pipeline's operations leave alone.
other_vars == << scoring_vars, detected, cluster_vars, summary, ranked, rest_vars >>

vars == << repositories, data_dir, clock, leaderboard, outcome,
           previous_leaderboard, metrics_map, loaded, calls, other_vars >>

MaxCalls == 2
MaxClock == 1

NotCalled == [status |-> "none", error |-> "", include_clustering |-> FALSE]
NotLoaded == [called |-> FALSE, filename |-> None, result |-> None]

InitWith(inputs) ==
    /\ repositories \in inputs
    /\ data_dir = {}
    /\ clock = 0
    /\ leaderboard = None
    /\ outcome = NotCalled
    /\ previous_leaderboard = None
    /\ metrics_map = {}
    /\ loaded = NotLoaded
    /\ calls = 0
    /\ criteria = HiddenGemCriteria
    /\ today = 0
    /\ scored = << >>
    /\ detected = NotDetected
    /\ embeddings_cache = EmptyDict
    /\ cache_file = NoCacheFile
    /\ embedded = NotEmbedded
    /\ clustered = NotClustered
    /\ summary = NotSummarised
    /\ ranked = NotRanked
    /\ InitRest

\* leaderboard = generator.generate_leaderboard(repositories, include_clustering)
GenerateResult(include_clustering, run, previous) ==
    /\ repositories' = run.repos
    /\ leaderboard' = run.leaderboard
    /\ outcome' = [ status |-> run.outcome, error |-> run.error,
                    include_clustering |-> include_clustering ]
    /\ previous_leaderboard' = previous
    /\ metrics_map' = run.metrics_map

GenerateWith(include_clustering, previous) ==
    GenerateResult(include_clustering,
                   generate_leaderboard(repositories, include_clustering, << >>,
                                        previous, clock),
                   previous)

Generate(include_clustering) ==
    /\ calls < MaxCalls
    /\ GenerateWith(include_clustering, load_previous_leaderboard(None, data_dir))
    /\ calls' = calls + 1
    /\ loaded' = NotLoaded
    /\ UNCHANGED << data_dir, clock, other_vars >>

\* generator.save_leaderboard(leaderboard) on the leaderboard just returned.
Save ==
    /\ ~IsNone(leaderboard)
    /\ data_dir' = save_leaderboard(Get(leaderboard), repositories, data_dir, clock)
    /\ loaded' = NotLoaded
    /\ UNCHANGED << repositories, clock, leaderboard, outcome,
                    previous_leaderboard, metrics_map, calls, other_vars >>

\* generator.load_previous_leaderboard(filename) for an explicit file name.
LoadNamed ==
    /\ \E name \in 0..MaxClock :
          loaded' = [ called |-> TRUE, filename |-> Some(name),
                      result |-> load_previous_leaderboard(Some(name), data_dir) ]
    /\ UNCHANGED << repositories, data_dir, clock, leaderboard, outcome,
                    previous_leaderboard, metrics_map, calls, other_vars >>

\* Time passes.
Tick ==
    /\ clock < MaxClock
    /\ clock' = clock + 1
    /\ loaded' = NotLoaded
    /\ UNCHANGED << repositories, data_dir, leaderboard, outcome,
                    previous_leaderboard, metrics_map, calls, other_vars >>

\* A snapshot file is damaged (truncated write, disk error): json.load fails.
Corrupt ==
    /\ \E f \in data_dir :
          /\ f.parsable
          /\ data_dir' = (data_dir \ {f})
                           \cup { [f EXCEPT !.parsable = FALSE, !.data = << >>] }
    /\ loaded' = NotLoaded
    /\ UNCHANGED << repositories, clock, leaderboard, outcome,
                    previous_leaderboard, metrics_map, calls, other_vars >>

\* After a run, the next pipeline run starts from new Repository objects: the
\* feed was scraped again (or its file loaded again).
Rescrape(inputs) ==
    /\ outcome # NotCalled
    /\ calls < MaxCalls
    /\ repositories' \in inputs
    /\ leaderboard' = None
    /\ outcome' = NotCalled
    /\ previous_leaderboard' = None
    /\ metrics_map' = {}
    /\ loaded' = NotLoaded
    /\ UNCHANGED << data_dir, clock, calls, other_vars >>

Init == InitWith(FixtureInputs)

Next ==
    \/ Generate(FALSE)
    \/ Save
    \/ LoadNamed
    \/ Tick
    \/ Corrupt
    \/ Rescrape(FixtureInputs)

Spec == Init /\ [][Next]_vars

\* The pipeline on the faulty feed.
InitFaulty == InitWith(FaultyInputs)

NextFaulty ==
    \/ Generate(FALSE)
    \/ Save
    \/ Tick
    \/ Rescrape(FaultyInputs)

SpecFaulty == InitFaulty /\ [][NextFaulty]_vars

\* generate_leaderboard on the boundary feed.
InitBoundary == InitWith(BoundaryInputs)

NextBoundary ==
    \/ Generate(FALSE)
    \/ Rescrape(BoundaryInputs)

SpecBoundary == InitBoundary /\ [][NextBoundary]_vars

\* generate_leaderboard on the bulk feed.
InitBulk == InitWith(BulkInputs)

NextBulk ==
    \/ Generate(FALSE)
    \/ Rescrape(BulkInputs)

SpecBulk == InitBulk /\ [][NextBulk]_vars

(***************************************************************************)
(* The scoring functions on one repository                                 *)
(***************************************************************************)
MaxScored == 2
MaxDays == 1

\* The repository as a call made `day` days after the start sees it: every
\* (now - t).days has grown by `day`; no field of the object has changed.
AtDay(repo, day) ==
    [repo EXCEPT !.created_at.days_ago = @ + day,
                 !.updated_at.days_ago = @ + day,
                 !.pushed_at.days_ago = @ + day]

\* One repository on either side of every gate of the detector; a well kept
\* project or a bare one otherwise, last updated 30 days before the start.
GateStars == {0, 1000, 1001}
GateAges == {100, 730, 731}
GateContributors == {1, 2}
GateReadmes == {199, 200}
GatePushes == {89, 90}

ScoringInputs ==
    { << [Repository(1, stars, age, push, 30, aware, rich)
            EXCEPT !.contributors_count = contributors,
                   !.readme_length = readme] >> :
        stars \in GateStars, age \in GateAges, contributors \in GateContributors,
        readme \in GateReadmes, push \in GatePushes, aware \in BOOLEAN,
        rich \in BOOLEAN }

\* HiddenGemsDetector(criteria): the default criteria, with or without the
\* active-maintenance requirement.
CriteriaOptions ==
    { [HiddenGemCriteria EXCEPT !.require_active_maintenance = required] :
        required \in BOOLEAN }

InitScoring ==
    /\ repositories \in ScoringInputs
    /\ data_dir = {}
    /\ clock = 0
    /\ leaderboard = None
    /\ outcome = NotCalled
    /\ previous_leaderboard = None
    /\ metrics_map = {}
    /\ loaded = NotLoaded
    /\ calls = 0
    /\ criteria \in CriteriaOptions
    /\ today = 0
    /\ scored = << >>
    /\ detected = NotDetected
    /\ embeddings_cache = EmptyDict
    /\ cache_file = NoCacheFile
    /\ embedded = NotEmbedded
    /\ clustered = NotClustered
    /\ summary = NotSummarised
    /\ ranked = NotRanked
    /\ InitRest

\* What one round of scoring calls on a repository returns.
ScoresOf(repo, seen) ==
    [ repo |-> repo,
      day |-> today,
      momentum |-> calculate_momentum_score(seen),
      quality |-> calculate_quality_score(seen),
      gem |-> GemScoreUnder(seen, criteria),
      potential |-> [ raised |-> PotentialRaises(seen),
                      value |-> IF PotentialRaises(seen) THEN 0
                                ELSE calculate_hidden_gem_potential(seen) ] ]

\* calculate_momentum_score, calculate_quality_score,
\* calculate_hidden_gem_potential and calculate_hidden_gem_score are called
\* on the repository.
ScoreRepository ==
    /\ Len(scored) < MaxScored
    /\ scored' = Append(scored, ScoresOf(repositories[1], AtDay(repositories[1], today)))
    /\ UNCHANGED << pipeline_vars, criteria, today, detected, cluster_vars, summary, ranked, rest_vars >>

\* A day of wall clock passes.
DayPasses ==
    /\ today < MaxDays
    /\ today' = today + 1
    /\ UNCHANGED << pipeline_vars, criteria, scored, detected, cluster_vars, summary, ranked, rest_vars >>

\* The project gains, or drops, both its test suite and its CI configuration,
\* and the repository is scraped again.
ToggleTestsAndCI ==
    /\ repositories[1].has_tests = repositories[1].has_ci
    /\ repositories' = << [repositories[1] EXCEPT !.has_tests = ~@, !.has_ci = ~@] >>
    /\ UNCHANGED << data_dir, clock, leaderboard, outcome, previous_leaderboard,
                    metrics_map, loaded, calls, scoring_vars, detected, cluster_vars,
                    summary, ranked, rest_vars >>

NextScoring ==
    \/ ScoreRepository
    \/ DayPasses
    \/ ToggleTestsAndCI

SpecScoring == InitScoring /\ [][NextScoring]_vars

(***************************************************************************)
(* The maintenance indicators of one repository                            *)
(***************************************************************************)
\* A repository on either side of every age and push bound of
\* calculate_maintenance_quality, last updated the day before the start.
MaintenanceAges == {0, 29, 30, 365, 366, 730, 731}
MaintenancePushes == {1, 7, 8, 30, 31, 90, 91, 180, 181}

MaintenanceInputs ==
    { << Repository(1, 100, age, push, 1, aware, TRUE) >> :
        age \in MaintenanceAges, push \in MaintenancePushes, aware \in BOOLEAN }

InitMaintenance ==
    /\ InitWith(MaintenanceInputs)

\* maintenance = detector.calculate_maintenance_quality(repo)
MaintenanceOf(repo, seen) ==
    [ repo |-> repo,
      day |-> today,
      recent_activity |-> calculate_maintenance_quality(seen)[1],
      update_consistency |-> calculate_maintenance_quality(seen)[2],
      maturity_balance |-> calculate_maintenance_quality(seen)[3] ]

AssessMaintenance ==
    /\ Len(scored) < MaxScored
    /\ scored' = Append(scored, MaintenanceOf(repositories[1],
                                              AtDay(repositories[1], today)))
    /\ UNCHANGED << pipeline_vars, criteria, today, detected, cluster_vars, summary,
                    ranked, rest_vars >>

NextMaintenance ==
    \/ AssessMaintenance
    \/ DayPasses

SpecMaintenance == InitMaintenance /\ [][NextMaintenance]_vars

(***************************************************************************)
(* The hidden-gem detector on more candidates than a list holds            *)
(***************************************************************************)
MaxGems == 22

\* Gem feed.  State 1: well kept projects with 100 stars whose last push is
\* 60, 1 or 20 days old (detector scores 0.9391, 0.9653, 0.9521).  State 2:
\* every third one scores 0.666, below the threshold, and every third one has
\* 85 stars (0.9646).
GemOption(id, v) ==
    LET slot == ((id - 1) % 3) + 1
    IN  CASE slot = 1 /\ v = 1 -> Repository(id, 100, 60, 60, 1, FALSE, TRUE)
          [] slot = 1 /\ v = 2 ->
               [Repository(id, 1000, 730, 90, 30, FALSE, TRUE)
                  EXCEPT !.contributors_count = 2, !.readme_length = 200]
          [] slot = 2 -> Repository(id, 100, 60, 1, 1, FALSE, TRUE)
          [] slot = 3 /\ v = 1 -> Repository(id, 100, 60, 20, 1, FALSE, TRUE)
          [] slot = 3 /\ v = 2 -> Repository(id, 85, 200, 1, 1, FALSE, TRUE)

GemInputs ==
    { [i \in 1..n |-> GemOption(i, v)] : n \in 0..MaxGems, v \in Variants }

TopKs == {1, 2, HIDDEN_GEMS_TOP_K}

InitGems ==
    /\ InitWith(GemInputs)

\* hidden_gems = hidden_gems_detector.detect_hidden_gems(repos, top_k)
DetectHiddenGems ==
    /\ \E top_k \in TopKs :
          detected' = [ called |-> TRUE, top_k |-> top_k,
                        result |-> detect_hidden_gems(repositories, top_k) ]
    /\ UNCHANGED << pipeline_vars, scoring_vars, cluster_vars, summary, ranked, rest_vars >>

NextGems ==
    \/ DetectHiddenGems
    \/ Generate(FALSE)

SpecGems == InitGems /\ [][NextGems]_vars

(***************************************************************************)
(* The clustering engine on its own                                        *)
(***************************************************************************)
MaxClusterRepos == 3
TextVersions == {0, 1, 2}

\* What the engine reads of a Repository, and the two fields it writes.
ClusterRepo(id, text) ==
    [id |-> id, text |-> text, cluster_id |-> None, readme_embedding |-> None]

\* The first n repositories; the first one may come without any text.
ClusterInputs ==
    { [i \in 1..n |-> ClusterRepo(i, IF i = 1 THEN text ELSE 1)] :
        n \in 0..MaxClusterRepos, text \in {0, 1} }

\* cluster_repositories(repositories, n_clusters): the default and two
\* explicit cluster counts.
NClustersArgs == {None, Some(2), Some(5)}

InitClustering ==
    /\ repositories \in ClusterInputs
    /\ data_dir = {}
    /\ clock = 0
    /\ leaderboard = None
    /\ outcome = NotCalled
    /\ previous_leaderboard = None
    /\ metrics_map = {}
    /\ loaded = NotLoaded
    /\ calls = 0
    /\ criteria = HiddenGemCriteria
    /\ today = 0
    /\ scored = << >>
    /\ detected = NotDetected
    /\ embeddings_cache = EmptyDict
    /\ cache_file = NoCacheFile
    /\ embedded = NotEmbedded
    /\ clustered = NotClustered
    /\ summary = NotSummarised
    /\ ranked = NotRanked
    /\ InitRest

Embedded(force_refresh, run) ==
    [ called |-> TRUE, force_refresh |-> force_refresh,
      cache_before |-> CacheAtStart(FALSE, embeddings_cache, cache_file),
      embeddings |-> run.embeddings, sent |-> run.sent, raised |-> run.raised,
      load_failed |-> ~force_refresh /\ cache_file.exists /\ ~cache_file.loadable,
      failed |-> run.failed ]

GenerateEmbeddingsResult(force_refresh, run) ==
    /\ embeddings_cache' = run.cache
    /\ cache_file' = run.cache_file
    /\ embedded' = Embedded(force_refresh, run)

\* embeddings = engine.generate_embeddings(repositories, force_refresh)
GenerateEmbeddings ==
    /\ \E force_refresh \in BOOLEAN, fault \in Faults :
          GenerateEmbeddingsResult(
              force_refresh,
              generate_embeddings(repositories, force_refresh, embeddings_cache,
                                  cache_file, fault))
    /\ clustered' = NotClustered
    /\ UNCHANGED << pipeline_vars, scoring_vars, detected, summary, ranked, rest_vars >>

\* n_clusters as perform_clustering uses it for n embeddings.
ClusterCounts(n_clusters, n) ==
    IF IsNone(n_clusters) THEN find_optimal_clusters(n) ELSE {Get(n_clusters)}

ClusterRepositoriesResult(n_clusters, run) ==
    /\ GenerateEmbeddingsResult(FALSE, run.embedded)
    /\ repositories' = run.repos
    /\ clustered' = [ called |-> TRUE, n_clusters |-> n_clusters,
                      repo_clusters |-> run.repo_clusters, clusters |-> run.clusters ]

\* The labels KMeans(n_clusters = k).fit_predict can return for the
\* embeddings of `ids`, where perform_clustering gets that far and it runs.
KMeansLabels(ids, k) ==
    IF Cardinality(ids) < 2 \/ k > Cardinality(ids)
    THEN {[id \in ids |-> 0]}
    ELSE [ids -> 0..(k - 1)]

ClusterRepositoriesWith(n_clusters, fault, ids) ==
    \E k \in ClusterCounts(n_clusters, Cardinality(ids)) :
        \E labels \in KMeansLabels(ids, k) :
            ClusterRepositoriesResult(
                k, cluster_repositories(repositories, k, labels, embeddings_cache,
                                        cache_file, fault))

\* repo_clusters, clusters = engine.cluster_repositories(repositories, n_clusters)
ClusterRepositories ==
    /\ \E n_clusters \in NClustersArgs, fault \in Faults :
          ClusterRepositoriesWith(
              n_clusters, fault,
              DOMAIN generate_embeddings(repositories, FALSE, embeddings_cache,
                                         cache_file, fault).embeddings)
    /\ UNCHANGED << data_dir, clock, leaderboard, outcome, previous_leaderboard,
                    metrics_map, loaded, calls, scoring_vars, detected, summary, ranked, rest_vars >>

\* The README of the first repository is edited and the list scraped again.
EditText ==
    /\ repositories # << >>
    /\ \E text \in TextVersions :
          /\ repositories[1].text # text
          /\ repositories' = [i \in 1..Len(repositories) |->
                                 ClusterRepo(i, IF i = 1 THEN text ELSE 1)]
    /\ embedded' = NotEmbedded
    /\ clustered' = NotClustered
    /\ UNCHANGED << data_dir, clock, leaderboard, outcome, previous_leaderboard,
                    metrics_map, loaded, calls, scoring_vars, detected,
                    embeddings_cache, cache_file, summary, ranked, rest_vars >>

\* The cache file is damaged: pickle.load fails.
CorruptCacheFile ==
    /\ cache_file.exists /\ cache_file.loadable
    /\ cache_file' = [cache_file EXCEPT !.loadable = FALSE, !.data = EmptyDict]
    /\ embedded' = NotEmbedded
    /\ clustered' = NotClustered
    /\ UNCHANGED << pipeline_vars, scoring_vars, detected, embeddings_cache, summary, ranked, rest_vars >>

\* The next pipeline run builds a new ClusteringEngine().
NewEngine ==
    /\ embeddings_cache # EmptyDict
    /\ embeddings_cache' = EmptyDict
    /\ embedded' = NotEmbedded
    /\ clustered' = NotClustered
    /\ UNCHANGED << pipeline_vars, scoring_vars, detected, cache_file, summary, ranked, rest_vars >>

NextClustering ==
    \/ GenerateEmbeddings
    \/ ClusterRepositories
    \/ EditText
    \/ CorruptCacheFile
    \/ NewEngine

SpecClustering == InitClustering /\ [][NextClustering]_vars

(***************************************************************************)
(* The summary of the leaderboards of successive runs                      *)
(***************************************************************************)
MaxSummaryRepos == 5

\* The first n repositories of the gem feed: between a run on three and a run
\* on five of them, hidden gems move up and down.
SummaryInputs ==
    { [i \in 1..n |-> GemOption(i, v)] : n \in 0..MaxSummaryRepos, v \in Variants }

InitSummary == InitWith(SummaryInputs)

\* stats = generator.generate_summary_stats(leaderboard)
Summarise ==
    /\ ~IsNone(leaderboard)
    /\ summary' = [ called |-> TRUE,
                    leaderboard |-> leaderboard,
                    raised |-> generate_summary_stats(Get(leaderboard)).raised,
                    error |-> generate_summary_stats(Get(leaderboard)).error,
                    stats |-> generate_summary_stats(Get(leaderboard)).stats ]
    /\ UNCHANGED << pipeline_vars, scoring_vars, detected, cluster_vars, ranked, rest_vars >>

NextSummary ==
    \/ Generate(FALSE)
    \/ Save
    \/ Rescrape(SummaryInputs)
    \/ Summarise

SpecSummary == InitSummary /\ [][NextSummary]_vars

(***************************************************************************)
(* The ranking functions called one after another on the same objects      *)
(***************************************************************************)
MaxRanked == 3

\* The fixture feed with every repository in either of its states.
RankingInputs ==
    { [i \in 1..n |-> FixtureOption(i, v[i])] :
        n \in 0..MaxRanked, v \in [1..MaxRanked -> Variants] }

InitRanking == InitWith(RankingInputs)

RankedIndices(entries) == [k \in 1..Len(entries) |-> entries[k].repository]

\* entries = generator.create_trending_leaderboard(repositories)
CreateTrendingResult(result) ==
    /\ repositories' = result.repos
    /\ ranked' = [ called |-> "trending", input |-> repositories, raised |-> FALSE,
                   trending |-> RankedIndices(result.entries),
                   established |-> << >>, hidden_gems |-> << >> ]

CreateTrending ==
    /\ CreateTrendingResult(create_trending_leaderboard(repositories, None))
    /\ UNCHANGED << data_dir, clock, leaderboard, outcome, previous_leaderboard,
                    metrics_map, loaded, calls, scoring_vars, detected, cluster_vars,
                    summary, rest_vars >>

\* entries = generator.create_established_leaderboard(repositories)
CreateEstablishedResult(result) ==
    /\ repositories' = result.repos
    /\ ranked' = [ called |-> "established", input |-> repositories, raised |-> FALSE,
                   trending |-> << >>,
                   established |-> RankedIndices(result.entries),
                   hidden_gems |-> << >> ]

CreateEstablished ==
    /\ IF EstablishedRaises(repositories)
       THEN /\ ranked' = [NotRanked EXCEPT !.called = "established",
                                           !.input = repositories, !.raised = TRUE]
            /\ UNCHANGED repositories
       ELSE CreateEstablishedResult(create_established_leaderboard(repositories, None))
    /\ UNCHANGED << data_dir, clock, leaderboard, outcome, previous_leaderboard,
                    metrics_map, loaded, calls, scoring_vars, detected, cluster_vars,
                    summary, rest_vars >>

\* ranked = calculator.rank_repositories(repositories)
RankRepositoriesResult(result) ==
    /\ repositories' = result.repos
    /\ ranked' = [ called |-> "rank", input |-> repositories, raised |-> result.raised,
                   trending |-> result.trending,
                   established |-> result.established,
                   hidden_gems |-> result.hidden_gems ]

RankRepositories ==
    /\ RankRepositoriesResult(rank_repositories(repositories))
    /\ UNCHANGED << data_dir, clock, leaderboard, outcome, previous_leaderboard,
                    metrics_map, loaded, calls, scoring_vars, detected, cluster_vars,
                    summary, rest_vars >>

NextRanking ==
    \/ CreateTrending
    \/ CreateEstablished
    \/ RankRepositories

SpecRanking == InitRanking /\ [][NextRanking]_vars

(***************************************************************************)
(* rank_repositories on more repositories than a list holds                *)
(***************************************************************************)
RankFeeds == {1, 2, 3, 4}

\* Feed 1: bare projects with 100 stars (the "everything else" category);
\* feed 2: projects with 10000 stars; feed 3: young well kept projects with
\* 100 stars (hidden-gem potential above 0.5); feed 4: the three in turn.
RankBulkOption(id, v) ==
    LET kind == IF v = 4 THEN ((id - 1) % 3) + 1 ELSE v
    IN  CASE kind = 1 -> Repository(id, 100, 60, 1, 1, FALSE, FALSE)
          [] kind = 2 -> Repository(id, 10000, 400, 90, 1, FALSE, TRUE)
          [] kind = 3 -> Repository(id, 100, 60, 1, 1, FALSE, TRUE)

RankBulkInputs ==
    { [i \in 1..n |-> RankBulkOption(i, v)] : n \in 0..MaxBulk, v \in RankFeeds }

InitRankBulk == InitWith(RankBulkInputs)

NextRankBulk == RankRepositories

SpecRankBulk == InitRankBulk /\ [][NextRankBulk]_vars

(***************************************************************************)
(* generate_leaderboard with clustering enabled                            *)
(***************************************************************************)
MaxClustered == 3

ClusteredInputs ==
    { [i \in 1..n |-> FixtureOption(i, v)] : n \in 0..MaxClustered, v \in Variants }

InitClustered == InitWith(ClusteredInputs)

\* generate_clusters is reached unless an earlier statement raised: the
\* established builder (TypeError) or the hidden-gems builder (ValueError).
ReachesClustering(repos, run) ==
    \/ run.outcome = "returned"
    \/ run.error = "TypeError" /\ ~EstablishedRaises(repos)

\* What the call leaves behind: the leaderboard, and, where the clustering
\* ran, the engine's cache and the cluster fields of the repositories.
GenerateClusteredResult(run, clustering, previous) ==
    /\ leaderboard' = run.leaderboard
    /\ outcome' = [ status |-> run.outcome, error |-> run.error,
                    include_clustering |-> TRUE ]
    /\ previous_leaderboard' = previous
    /\ metrics_map' = run.metrics_map
    /\ IF ReachesClustering(repositories, run)
       THEN /\ repositories' = WithClusters(run.repos, clustering.repo_clusters,
                                            clustering.embedded.embeddings)
            /\ GenerateEmbeddingsResult(FALSE, clustering.embedded)
            /\ clustered' = [ called |-> TRUE, n_clusters |-> 0,
                              repo_clusters |-> clustering.repo_clusters,
                              clusters |-> clustering.clusters ]
       ELSE /\ repositories' = run.repos
            /\ UNCHANGED cluster_vars

GenerateClusteredWith(clustering, previous) ==
    GenerateClusteredResult(
        generate_leaderboard(repositories, TRUE,
                             generate_clusters(repositories, clustering),
                             previous, clock),
        clustering, previous)

\* leaderboard = generator.generate_leaderboard(repositories): clustering is
\* on by default; the encoder or the cache write may fail, and KMeans
\* returns some labels.
GenerateClustered ==
    /\ calls < MaxCalls
    /\ \E fault \in Faults :
          \E k \in find_optimal_clusters(Len(repositories)) :
              \E labels \in KMeansLabels({ repositories[i].id :
                                              i \in 1..Len(repositories) }, k) :
                  GenerateClusteredWith(
                      cluster_repositories(repositories, k, labels, embeddings_cache,
                                           cache_file, fault),
                      load_previous_leaderboard(None, data_dir))
    /\ calls' = calls + 1
    /\ loaded' = NotLoaded
    /\ UNCHANGED << data_dir, clock, scoring_vars, detected, summary, ranked, rest_vars >>

NextClustered ==
    \/ GenerateClustered
    \/ Generate(FALSE)
    \/ Rescrape(ClusteredInputs)

SpecClustered == InitClustered /\ [][NextClustered]_vars

(***************************************************************************)
(* The leaderboard updated with historical growth data                     *)
(***************************************************************************)
MaxUpdates == 1

\* stars_growth_30d of some of the repositories: none, or as many stars as
\* the largest repository of the feed has.
GrowthValues == {0, 10000}
HistoricalData ==
    UNION { [ids -> GrowthValues] : ids \in SUBSET (1..MaxRepos) }

InitHistory == InitWith(FixtureInputs)

UpdateResult(historical_data, run) ==
    /\ repositories' = run.repos
    /\ leaderboard' = Some(run.leaderboard)
    /\ history' = [ updates |-> history.updates + 1,
                    historical_data |-> historical_data,
                    before |-> leaderboard,
                    previous |-> previous_leaderboard,
                    repos |-> run.repos,
                    leaderboard |-> Some(run.leaderboard) ]

\* leaderboard = generator.update_leaderboard_with_historical_data(
\*     leaderboard, historical_data)
UpdateWithHistory ==
    /\ ~IsNone(leaderboard)
    /\ history.updates < MaxUpdates
    /\ \E historical_data \in HistoricalData :
          UpdateResult(historical_data,
                       update_leaderboard_with_historical_data(
                           Get(leaderboard), repositories, historical_data))
    /\ UNCHANGED << data_dir, clock, outcome, previous_leaderboard, metrics_map,
                    loaded, calls, scoring_vars, detected, cluster_vars, summary,
                    ranked, scheduler_vars, client_vars >>

NextHistory ==
    \/ Generate(FALSE)
    \/ Save
    \/ Rescrape(FixtureInputs)
    \/ UpdateWithHistory

SpecHistory == InitHistory /\ [][NextHistory]_vars

(***************************************************************************)
(* Properties                                                              *)
(***************************************************************************)
Categories == {"trending", "established", "hidden_gems"}

HasReturned == outcome.status = "returned"
HasBeenCalled == outcome.status # "none"
Current == Get(leaderboard)

\* The repository id of an entry of the leaderboard in memory.
IdOf(entry) == repositories[entry.repository].id
IdsIn(entries) == { IdOf(entries[k]) : k \in 1..Len(entries) }
\* The repository ids of a category of a snapshot.
SnapshotIds(entries) == { entries[k].repository.id : k \in 1..Len(entries) }

AllDeltasNull(lb) ==
    \A cat \in Categories : \A k \in 1..Len(lb[cat]) :
        lb[cat][k].change_from_previous = None

\* ------------------------------------------------------------------ C1
\* C1: every leaderboard generate_leaderboard returns has at most 50 trending
\* entries, at most 30 established entries and at most 20 hidden_gems
\* entries, whatever the number of qualifying repositories.
C1_TopNCaps ==
    HasReturned =>
        /\ Len(Current.trending) <= 50
        /\ Len(Current.established) <= 30
        /\ Len(Current.hidden_gems) <= 20

\* More repositories qualify for each list than it holds, and each list is full.
C1_Witness ==
    /\ HasReturned
    /\ Cardinality({ i \in 1..Len(repositories) : TrendingEligible(repositories[i]) }) > 50
    /\ Cardinality({ i \in 1..Len(repositories) : EstablishedEligible(repositories[i]) }) > 30
    /\ Cardinality({ i \in 1..Len(repositories) :
                       repositories[i].stargazers_count = 100 }) > 20
    /\ Len(Current.trending) = 50
    /\ Len(Current.established) = 30
    /\ Len(Current.hidden_gems) = 20

\* ------------------------------------------------------------------ C2
C2_Expected(entry, previous_entries) ==
    LET hits == { k \in 1..Len(previous_entries) :
                    previous_entries[k].repository.id = IdOf(entry) }
    IN  IF hits = {} THEN None
        ELSE Some(previous_entries[CHOOSE k \in hits : TRUE].rank - entry.rank)

\* C2: when a previous leaderboard is given, an entry whose repository id
\* occurs in the same category of the previous leaderboard has
\* change_from_previous = previous_rank - current_rank, and an entry whose id
\* does not occur there has a null change_from_previous; the rank the id had
\* in another category is never used.
C2_PositionChanges ==
    (HasReturned /\ ~IsNone(previous_leaderboard)) =>
        \A cat \in Categories : \A k \in 1..Len(Current[cat]) :
            Current[cat][k].change_from_previous
                = C2_Expected(Current[cat][k], Get(previous_leaderboard)[cat])

\* A repository moved up in trending, and a repository that is new in its
\* category was listed in another category of the previous leaderboard.
C2_Witness ==
    /\ HasReturned
    /\ ~IsNone(previous_leaderboard)
    /\ \E k \in 1..Len(Current.trending) :
          /\ ~IsNone(Current.trending[k].change_from_previous)
          /\ Get(Current.trending[k].change_from_previous) > 0
    /\ \E cat \in Categories : \E k \in 1..Len(Current[cat]) :
          /\ IsNone(Current[cat][k].change_from_previous)
          /\ \E other \in Categories \ {cat} :
                IdOf(Current[cat][k]) \in SnapshotIds(Get(previous_leaderboard)[other])

\* ------------------------------------------------------------------ C3
C3_Newest(files) == CHOOSE f \in files : \A g \in files : g.mtime <= f.mtime

\* load_previous_leaderboard(filename) was just called for a file that does
\* not exist or cannot be parsed.
C3_NamedLoad ==
    loaded'.called =>
        LET named == { f \in data_dir' : f.name = Get(loaded'.filename) }
        IN  (named = {} \/ \A f \in named : ~f.parsable) => IsNone(loaded'.result)

\* generate_leaderboard was just called with no snapshot on disk, or with a
\* newest snapshot that cannot be parsed.
C3_GenerateLoad ==
    (calls' = calls + 1 /\ (data_dir = {} \/ ~C3_Newest(data_dir).parsable)) =>
        /\ IsNone(previous_leaderboard')
        /\ outcome'.status = "returned"
        /\ AllDeltasNull(Get(leaderboard'))

\* C3: when no snapshot exists, when the named snapshot file does not exist,
\* or when the snapshot cannot be parsed, load_previous_leaderboard returns no
\* baseline (it does not raise), and every entry of the leaderboard then
\* generated has a null change_from_previous.
C3_MissingBaseline == [][C3_NamedLoad /\ C3_GenerateLoad]_vars

\* A leaderboard generated at second 1 without baseline, while the newest
\* snapshot was unparsable and an older one was intact.
C3_Witness ==
    /\ HasReturned
    /\ IsNone(previous_leaderboard)
    /\ Current.generated_at.second = 1
    /\ Len(Current.trending) > 0
    /\ \E f \in data_dir : \E g \in data_dir :
          f.parsable /\ ~g.parsable /\ f.mtime = 0 /\ g.mtime = 1

\* ------------------------------------------------------------------ C4
C4_FirstRun == HasReturned /\ IsNone(previous_leaderboard)

\* The newest snapshot holds the leaderboard in memory.
C4_Saved ==
    /\ data_dir # {}
    /\ C3_Newest(data_dir).parsable
    /\ \A cat \in Categories :
          /\ Len(C3_Newest(data_dir).data[cat]) = Len(Current[cat])
          /\ \A k \in 1..Len(Current[cat]) :
                /\ C3_Newest(data_dir).data[cat][k].repository.id = IdOf(Current[cat][k])
                /\ C3_Newest(data_dir).data[cat][k].rank = Current[cat][k].rank

C4_SecondRun ==
    (calls' = calls + 1 /\ C4_FirstRun /\ C4_Saved) =>
        /\ outcome'.status = "returned"
        /\ \A cat \in Categories :
              /\ Len(Get(leaderboard')[cat]) = Len(Current[cat])
              /\ \A k \in 1..Len(Current[cat]) :
                    /\ Get(leaderboard')[cat][k].repository = Current[cat][k].repository
                    /\ Get(leaderboard')[cat][k].rank = Current[cat][k].rank
                    /\ Get(leaderboard')[cat][k].change_from_previous = Some(0)

\* C4: a first generate_leaderboard run without previous snapshot yields only
\* null deltas; once that leaderboard is saved, a second run on the unchanged
\* repositories loads it as previous and gives every entry of every category
\* the rank it had in the first run and change_from_previous = 0.
C4_RoundTrip ==
    [][(C4_FirstRun => AllDeltasNull(Current)) /\ C4_SecondRun]_vars

\* The second run's leaderboard: a baseline was loaded, all deltas are 0, and
\* the trending and hidden_gems lists are not empty.
C4_Witness ==
    /\ HasReturned
    /\ calls = 2
    /\ ~IsNone(previous_leaderboard)
    /\ Len(Current.trending) > 1
    /\ Len(Current.hidden_gems) > 0
    /\ \A cat \in Categories : \A k \in 1..Len(Current[cat]) :
          Current[cat][k].change_from_previous = Some(0)

\* ------------------------------------------------------------------ C5
\* The category scores as documented, from the repository's statistics.
C5_TrendingScore(repo) ==
    (calculate_momentum_score(repo) * 7) \div 10 + calculate_quality_score(repo) * 3

C5_EstablishedScore(repo) ==
    (calculate_momentum_score(repo) * 3) \div 10 + calculate_quality_score(repo) * 5
        + (repo.stargazers_count * Scale) \div 10000

\* The documented scores of the repositories of a list, in list order.
C5_TrendingScores(entries) ==
    [k \in 1..Len(entries) |-> C5_TrendingScore(repositories[entries[k].repository])]

C5_EstablishedScores(entries) ==
    [k \in 1..Len(entries) |-> C5_EstablishedScore(repositories[entries[k].repository])]

C5_NonIncreasing(scores) ==
    \A k \in 1..(Len(scores) - 1) : scores[k] >= scores[k + 1]

\* No score left out of the list exceeds a score kept in it.
C5_TopKept(kept, left_out) ==
    \A k \in 1..Len(kept) : \A x \in left_out : kept[k] >= x

\* C5: in a returned leaderboard the trending list is in non-increasing order
\* of momentum*0.7 + quality*3.0 and the established list in non-increasing
\* order of momentum*0.3 + quality*5.0 + (stars/1000)*0.1, and the
\* repositories kept are the top ones by that score.
C5_CategoryScoreOrder ==
    HasReturned =>
        /\ C5_NonIncreasing(C5_TrendingScores(Current.trending))
        /\ C5_NonIncreasing(C5_EstablishedScores(Current.established))
        /\ C5_TopKept(C5_TrendingScores(Current.trending),
                      { C5_TrendingScore(repositories[i]) :
                          i \in { j \in 1..Len(repositories) :
                                    /\ TrendingEligible(repositories[j])
                                    /\ repositories[j].id \notin IdsIn(Current.trending) } })
        /\ C5_TopKept(C5_EstablishedScores(Current.established),
                      { C5_EstablishedScore(repositories[i]) :
                          i \in { j \in 1..Len(repositories) :
                                    /\ EstablishedEligible(repositories[j])
                                    /\ repositories[j].id \notin IdsIn(Current.established) } })

\* ------------------------------------------------------------------ C6
\* C6: generate_leaderboard completes without raising for repositories with
\* timezone-aware timestamps as well as for repositories with naive ones
\* (the star counts being valid).
C6_NoTimezoneError ==
    (HasBeenCalled /\ \A i \in 1..Len(repositories) : ~MetricsRaises(repositories[i]))
        => HasReturned

\* ------------------------------------------------------------------ C7
C7_Failing == { i \in 1..Len(repositories) : MetricsRaises(repositories[i]) }
C7_Naive == \A i \in 1..Len(repositories) : ~repositories[i].created_at.aware

\* What a list shows of its entries: repository id, rank, delta, metrics.
C7_Shown(entries, repos) ==
    [k \in 1..Len(entries) |->
        [ id |-> repos[entries[k].repository].id,
          rank |-> entries[k].rank,
          change |-> entries[k].change_from_previous,
          metrics |-> entries[k].metrics ]]

\* The run on the same repositories without the failing ones.
C7_Without(run) ==
    /\ run.outcome = "returned"
    /\ \A cat \in Categories :
          C7_Shown(Current[cat], repositories)
              = C7_Shown(Get(run.leaderboard)[cat], run.repos)

\* C7: if computing the scores of a repository raises, generate_leaderboard
\* still returns a leaderboard, the failing repository is in no category list
\* and not in the metrics map, and the other repositories are ranked as if the
\* failing one were absent from the input.
C7_FailureIsolated ==
    (HasBeenCalled /\ C7_Naive /\ C7_Failing # {}) =>
        /\ HasReturned
        /\ \A i \in C7_Failing :
              /\ repositories[i].id \notin metrics_map
              /\ \A cat \in Categories : repositories[i].id \notin IdsIn(Current[cat])
        /\ C7_Without(generate_leaderboard(
              SelectSeq(FreshAll(repositories), LAMBDA r : ~MetricsRaises(r)),
              FALSE, << >>, previous_leaderboard, clock))

\* ------------------------------------------------------------------ C8
\* C8 as stated: in a returned leaderboard no repository id is in more than
\* one of the three category lists.
C8_OneCategory ==
    HasReturned =>
        /\ IdsIn(Current.trending) \cap IdsIn(Current.established) = {}
        /\ IdsIn(Current.trending) \cap IdsIn(Current.hidden_gems) = {}
        /\ IdsIn(Current.established) \cap IdsIn(Current.hidden_gems) = {}

\* C8, amended: in a returned leaderboard no repository id is in both the
\* established and the hidden_gems list, and (the input ids being distinct) no
\* id is twice in one list; the trending list may share ids with either.
C8_EstablishedGemsDisjoint ==
    HasReturned =>
        /\ IdsIn(Current.established) \cap IdsIn(Current.hidden_gems) = {}
        /\ \A cat \in Categories :
              Cardinality(IdsIn(Current[cat])) = Len(Current[cat])

\* Established and hidden gems are both listed, and a repository is in the
\* trending and in the established list.
C8_Witness ==
    /\ HasReturned
    /\ Current.established # << >>
    /\ Current.hidden_gems # << >>
    /\ IdsIn(Current.trending) \cap IdsIn(Current.established) # {}

\* ------------------------------------------------------------------ C9
C9_Trending(repo) ==
    /\ 100 <= repo.stargazers_count
    /\ repo.stargazers_count <= 10000
    /\ repo.pushed_at.days_ago <= 90
    /\ repo.created_at.days_ago >= 30

C9_Established(repo) ==
    /\ repo.stargazers_count >= 5000
    /\ repo.created_at.days_ago >= 180

\* C9: a repository is in the trending list only if 100 <= stars <= 10000,
\* days since push <= 90 and age >= 30 days, and in the established list only
\* if stars >= 5000 and age >= 180 days; every bound is inclusive: a
\* repository that meets them is listed unless the list is full.
C9_Eligibility ==
    HasReturned =>
        \A i \in 1..Len(repositories) :
            /\ repositories[i].id \in IdsIn(Current.trending)
                  => C9_Trending(repositories[i])
            /\ C9_Trending(repositories[i])
                  => (repositories[i].id \in IdsIn(Current.trending)
                        \/ Len(Current.trending) = 50)
            /\ repositories[i].id \in IdsIn(Current.established)
                  => C9_Established(repositories[i])
            /\ C9_Established(repositories[i])
                  => (repositories[i].id \in IdsIn(Current.established)
                        \/ Len(Current.established) = 30)

\* The repository with exactly 5000 stars, age 180 days and a push 90 days
\* ago is listed as established and as trending.
C9_Witness ==
    /\ HasReturned
    /\ \E i \in 1..Len(repositories) :
          /\ repositories[i].stargazers_count = 5000
          /\ repositories[i].created_at.days_ago = 180
          /\ repositories[i].pushed_at.days_ago = 90
          /\ repositories[i].id \in IdsIn(Current.established)
          /\ repositories[i].id \in IdsIn(Current.trending)

\* ------------------------------------------------------------------ C10
\* C10: in every category list the entry at position i, counted from 1, has
\* rank i: ranks are 1-based and consecutive, without gaps or duplicates.
C10_DenseRanks ==
    HasReturned =>
        \A cat \in Categories : \A k \in 1..Len(Current[cat]) :
            Current[cat][k].rank = k

\* Three full lists, whose last entries have ranks 50, 30 and 20.
C10_Witness ==
    /\ HasReturned
    /\ Len(Current.trending) = 50 /\ Current.trending[50].rank = 50
    /\ Len(Current.established) = 30 /\ Current.established[30].rank = 30
    /\ Len(Current.hidden_gems) = 20 /\ Current.hidden_gems[20].rank = 20

\* ----------------------------------------------------------------- C11
\* The gates of the detector as the criteria state them, on the repository
\* as the call saw it.
C11_StarsGate(r) == r.stargazers_count > criteria.max_stars
C11_AgeGate(r) == DaysSince(r.created_at) > criteria.max_age_days
C11_ContributorsGate(r) == r.contributors_count < criteria.min_contributors
C11_ReadmeGate(r) == r.readme_length < criteria.min_readme_length
C11_PushGate(r) ==
    criteria.require_active_maintenance
    /\ DaysSince(r.pushed_at) > criteria.max_days_since_push

C11_AnyGate(r) ==
    \/ C11_StarsGate(r)
    \/ C11_AgeGate(r)
    \/ C11_ContributorsGate(r)
    \/ C11_ReadmeGate(r)
    \/ C11_PushGate(r)

C11_Seen(k) == AtDay(scored[k].repo, scored[k].day)

\* C11: calculate_hidden_gem_score returns exactly 0.0 whenever a gate fails
\* (stars > max_stars, age > max_age_days, contributors < min_contributors,
\* README length < min_readme_length, or, only when require_active_maintenance
\* is set, days since push > max_days_since_push), and
\* calculate_hidden_gem_potential returns exactly 0.0 (without raising)
\* whenever stars exceed settings.hidden_gem_max_stars; a repository that meets
\* every bound, some of them exactly, is not zeroed.
C11_GatesZero ==
    \A k \in 1..Len(scored) :
        /\ C11_AnyGate(C11_Seen(k)) => scored[k].gem = 0
        /\ ~C11_AnyGate(C11_Seen(k)) => scored[k].gem > 0
        /\ scored[k].repo.stargazers_count > hidden_gem_max_stars
             => (~scored[k].potential.raised /\ scored[k].potential.value = 0)

\* A repository with stars = max_stars, contributors = min_contributors,
\* README length = min_readme_length and a push max_days_since_push days ago
\* was scored above zero, and one with stars = max_stars + 1 was zeroed.
C11_Witness ==
    /\ Len(scored) = 2
    /\ scored[1].repo.stargazers_count = max_stars
    /\ scored[1].repo.contributors_count = min_contributors
    /\ scored[1].repo.readme_length = min_readme_length
    /\ DaysSince(C11_Seen(1).pushed_at) = max_days_since_push
    /\ DaysSince(C11_Seen(1).created_at) = max_age_days
    /\ criteria.require_active_maintenance
    /\ scored[1].gem > 0
    /\ scored[1].potential.value > 0
    /\ DaysSince(C11_Seen(2).created_at) = max_age_days + 1
    /\ scored[2].gem = 0

\* ----------------------------------------------------------------- C12
\* The detector score of the repository at a position of the list.
C12_Score(i) == calculate_hidden_gem_score(repositories[i])

\* The repositories that reach the threshold.
C12_Qualifying == { i \in 1..Len(repositories) : C12_Score(i) >= min_quality_score }

\* `picked` (positions of repositories, in result order) is a correct top
\* `top_k`: no more than top_k distinct qualifying repositories, as many as
\* there are up to top_k, in non-increasing order of score, and nothing that
\* was left out scores higher than something returned.
C12_TopOf(picked, top_k) ==
    /\ Len(picked) = Min(top_k, Cardinality(C12_Qualifying))
    /\ \A k \in 1..Len(picked) : picked[k] \in C12_Qualifying
    /\ \A j, k \in 1..Len(picked) : j < k =>
          /\ picked[j] # picked[k]
          /\ C12_Score(picked[j]) >= C12_Score(picked[k])
    /\ \A i \in C12_Qualifying : \A k \in 1..Len(picked) :
          (\A j \in 1..Len(picked) : picked[j] # i) => C12_Score(i) <= C12_Score(picked[k])

C12_Detected ==
    detected.called =>
        /\ C12_TopOf([k \in 1..Len(detected.result) |-> detected.result[k].repo],
                     detected.top_k)
        /\ \A k \in 1..Len(detected.result) :
              detected.result[k].score = C12_Score(detected.result[k].repo)

C12_Ranked ==
    HasReturned =>
        /\ C12_TopOf([k \in 1..Len(Current.hidden_gems) |->
                         Current.hidden_gems[k].repository], HIDDEN_GEMS_TOP_K)
        /\ \A k \in 1..Len(Current.hidden_gems) :
              /\ Current.hidden_gems[k].rank = k
              /\ Current.hidden_gems[k].category = "hidden_gem"

\* C12: detect_hidden_gems(repos, top_k) returns at most top_k tuples, each
\* scoring at least min_quality_score, in non-increasing order of score, and
\* no repository left out scores higher than a returned one;
\* create_hidden_gems_leaderboard ranks exactly the top 20 in that order.
C12_TopGems == C12_Detected /\ C12_Ranked

\* More than twenty repositories qualify, with different scores and not in
\* score order; the detector was asked for two and the leaderboard was built.
C12_Witness ==
    /\ Cardinality(C12_Qualifying) > HIDDEN_GEMS_TOP_K
    /\ C12_Score(1) < C12_Score(2)
    /\ detected.called /\ detected.top_k = 2 /\ Len(detected.result) = 2
    /\ HasReturned
    /\ Len(Current.hidden_gems) = HIDDEN_GEMS_TOP_K

\* ----------------------------------------------------------------- C13
\* C13: for a repository with non-negative counts, calculate_quality_score
\* and calculate_hidden_gem_score return a value in [0, 1] and
\* calculate_momentum_score a value in [0, 10].
C13_ScoreRanges ==
    \A k \in 1..Len(scored) :
        (/\ scored[k].repo.stargazers_count >= 0
         /\ scored[k].repo.forks_count >= 0
         /\ scored[k].repo.watchers_count >= 0
         /\ scored[k].repo.open_issues_count >= 0
         /\ scored[k].repo.contributors_count >= 0
         /\ scored[k].repo.readme_length >= 0)
        => /\ 0 <= scored[k].quality /\ scored[k].quality <= Scale
           /\ 0 <= scored[k].gem /\ scored[k].gem <= Scale
           /\ 0 <= scored[k].momentum /\ scored[k].momentum <= 10 * Scale

\* A repository whose momentum reached the cap of 10 was scored, with a
\* detector score strictly between 0 and 1, and then one the detector zeroed.
C13_Witness ==
    /\ Len(scored) = 2
    /\ scored[1].momentum = 10 * Scale
    /\ 0 < scored[1].gem /\ scored[1].gem < Scale
    /\ 0 < scored[1].quality /\ scored[1].quality < Scale
    /\ scored[2].gem = 0

\* ----------------------------------------------------------------- C14
\* Two scored repositories are identical except that the first has tests and
\* CI and the second has neither.
C14_OnlyTestsAndCIDiffer(a, b) ==
    /\ a.has_tests /\ a.has_ci
    /\ ~b.has_tests /\ ~b.has_ci
    /\ a = [b EXCEPT !.has_tests = TRUE, !.has_ci = TRUE]

\* C14: of two repositories identical in every field except that one has
\* has_tests = has_ci = true and the other has both false, the former's
\* calculate_quality_score is strictly greater.
C14_TestsAndCIRaiseQuality ==
    \A j, k \in 1..Len(scored) :
        C14_OnlyTestsAndCIDiffer(scored[j].repo, scored[k].repo)
        => scored[j].quality > scored[k].quality

\* A licensed project with three topics or more (code-quality sub-score at its
\* cap of 1.0 with tests and CI) was scored with and without tests and CI.
C14_Witness ==
    /\ Len(scored) = 2
    /\ scored[1].day = scored[2].day
    /\ C14_OnlyTestsAndCIDiffer(scored[1].repo, scored[2].repo)
    /\ scored[1].repo.license_name
    /\ scored[1].repo.topics.count >= 3
    /\ scored[1].quality > scored[2].quality

\* ----------------------------------------------------------------- C15
\* C15: computing calculate_quality_score twice on the same unmutated
\* repository yields the same value both times: the result depends on the
\* repository's fields only.
C15_SameRepositorySameQuality ==
    \A j, k \in 1..Len(scored) :
        scored[j].repo = scored[k].repo => scored[j].quality = scored[k].quality

\* ----------------------------------------------------------------- C16
C16_InputIds == { repositories[i].id : i \in 1..Len(repositories) }

\* Too few repositories for the clusters asked for.
C16_Degenerate ==
    /\ Len(repositories) >= 1
    /\ (Len(repositories) < 2 \/ clustered.n_clusters > Len(repositories))

C16_SingleFallbackCluster ==
    /\ DOMAIN clustered.clusters = {0}
    /\ { clustered.clusters[0].repos[k] : k \in 1..Len(clustered.clusters[0].repos) }
         = C16_InputIds
    /\ DOMAIN clustered.repo_clusters = C16_InputIds
    /\ \A id \in C16_InputIds : clustered.repo_clusters[id] = 0

\* C16: when the embedding function raises or the input is degenerate,
\* cluster_repositories yields a single fallback cluster (cluster 0) that
\* contains every input repository.
C16_FallbackCluster ==
    (clustered.called /\ (embedded.raised \/ C16_Degenerate))
        => C16_SingleFallbackCluster

\* ----------------------------------------------------------------- C20
\* The vectors cached when the call started: those of the readable cache
\* file, or of the engine's dict when there is no file.
C20_Cached == DOMAIN embedded.cache_before
C20_Sent == { embedded.sent[k] : k \in 1..Len(embedded.sent) }

C20_WithoutRefresh ==
    \A i \in 1..Len(repositories) :
        repositories[i].id \in C20_Cached =>
            /\ repositories[i].id \notin C20_Sent
            /\ ~embedded.raised => repositories[i].id \in DOMAIN embedded.embeddings
            /\ repositories[i].id \in DOMAIN embedded.embeddings =>
                  embedded.embeddings[repositories[i].id]
                      = embedded.cache_before[repositories[i].id]
            /\ repositories[i].id \in DOMAIN embeddings_cache =>
                  embeddings_cache[repositories[i].id]
                      = embedded.cache_before[repositories[i].id]

C20_WithRefresh ==
    \A i \in 1..Len(repositories) :
        repositories[i].text # 0 =>
            /\ repositories[i].id \in C20_Sent
            /\ ~embedded.raised =>
                  /\ embeddings_cache[repositories[i].id] = Encode(repositories[i].text)
                  /\ cache_file.data[repositories[i].id] = Encode(repositories[i].text)
                  /\ embedded.embeddings[repositories[i].id] = Encode(repositories[i].text)

C17_New(entries) ==
    Cardinality({ k \in 1..Len(entries) : IsNone(entries[k].change_from_previous) })
C17_Up(entries) ==
    Cardinality({ k \in 1..Len(entries) :
                    /\ ~IsNone(entries[k].change_from_previous)
                    /\ Get(entries[k].change_from_previous) > 0 })
C17_Down(entries) ==
    Cardinality({ k \in 1..Len(entries) :
                    /\ ~IsNone(entries[k].change_from_previous)
                    /\ Get(entries[k].change_from_previous) < 0 })

C17_Counted(position_changes, category, kind, n) ==
    IF << category, kind >> \in DOMAIN position_changes
    THEN position_changes[<< category, kind >>] = n
    ELSE n = 0

\* C17: generate_summary_stats returns, without raising, the number of new,
\* up and down entries of each of the three categories, and leaves the
\* leaderboard unchanged.
C17_SummaryCounts ==
    summary.called =>
        /\ ~summary.raised
        /\ \A category \in Categories :
              /\ C17_Counted(Get(summary.stats).position_changes, category, "new",
                             C17_New(Get(summary.leaderboard)[category]))
              /\ C17_Counted(Get(summary.stats).position_changes, category, "up",
                             C17_Up(Get(summary.leaderboard)[category]))
              /\ C17_Counted(Get(summary.stats).position_changes, category, "down",
                             C17_Down(Get(summary.leaderboard)[category]))

\* ----------------------------------------------------------------- C18
\* The snapshot files a step has written.
C18_Written == { f \in data_dir' : f.parsable /\ f \notin data_dir }

\* C18: every save_leaderboard call with the default file name writes a
\* record distinct from those of all earlier saves (no snapshot persisted
\* before is overwritten), and the snapshot just saved is the one
\* load_previous_leaderboard returns next.
C18_SaveStep ==
    C18_Written # {} =>
        /\ { f \in data_dir : f.parsable } \subseteq data_dir'
        /\ \A f \in C18_Written :
              load_previous_leaderboard(None, data_dir') = Some(ParseLeaderboard(f.data))

C18_DistinctSnapshots == [][C18_SaveStep]_vars

\* The repositories as a scrape delivers them: no score written yet.
C19_Unscored(repos) ==
    [i \in 1..Len(repos) |->
        [repos[i] EXCEPT !.final_score = 0, !.momentum_score = 0, !.quality_score = 0]]

\* C19: a final_score already present on an input repository never determines
\* its position: create_trending_leaderboard, create_established_leaderboard
\* and rank_repositories return the order they return for the same
\* repositories with no score written on them (final_score 0.0), that is the
\* order of the scores recomputed from the statistics fields.
C19_StaleScoreIgnored ==
    /\ (ranked.called = "trending" /\ ~ranked.raised) =>
          ranked.trending =
             RankedIndices(create_trending_leaderboard(C19_Unscored(ranked.input),
                                                       None).entries)
    /\ (ranked.called = "established" /\ ~ranked.raised) =>
          ranked.established =
             RankedIndices(create_established_leaderboard(C19_Unscored(ranked.input),
                                                          None).entries)
    /\ (ranked.called = "rank" /\ ~ranked.raised) =>
          /\ ranked.trending = rank_repositories(C19_Unscored(ranked.input)).trending
          /\ ranked.established = rank_repositories(C19_Unscored(ranked.input)).established

\* ----------------------------------------------------------------- C21
\* The call could not read the cache file, or could not write it.
C21_CacheFileFailed ==
    /\ embedded.called
    /\ embedded.failed # "encode"
    /\ (embedded.load_failed \/ embedded.failed = "dump")

\* C21: a generate_embeddings call that fails to read the embeddings cache
\* file or to write it (and whose encoder works) still returns the vector of
\* every repository with non-empty text.
C21_CacheFailuresNonFatal ==
    C21_CacheFileFailed =>
        \A i \in 1..Len(repositories) :
            repositories[i].text # 0 =>
                /\ repositories[i].id \in DOMAIN embedded.embeddings
                /\ embedded.load_failed =>
                      embedded.embeddings[repositories[i].id] = Encode(repositories[i].text)

\* ----------------------------------------------------------------- C22
C22_Clusters == Get(leaderboard).clusters

\* The repositories that received a cluster label in the call.
C22_Labelled == DOMAIN clustered.repo_clusters

C22_Members(cluster) == { cluster.repos[k] : k \in 1..Len(cluster.repos) }

\* C22: the cluster list of a leaderboard generated with clustering is in
\* non-increasing order of size, each cluster's size is the number of
\* repository ids it lists, and every repository that received a cluster
\* label is listed in exactly one cluster; a leaderboard generated without
\* clustering has an empty cluster list.
C22_ClusterList ==
    (outcome.status = "returned") =>
        IF outcome.include_clustering
        THEN /\ \A k \in 1..(Len(C22_Clusters) - 1) :
                   C22_Clusters[k].size >= C22_Clusters[k + 1].size
             /\ \A k \in 1..Len(C22_Clusters) :
                   /\ C22_Clusters[k].size = Len(C22_Clusters[k].repos)
                   /\ C22_Clusters[k].size = Cardinality(C22_Members(C22_Clusters[k]))
             /\ \A id \in C22_Labelled :
                   Cardinality({ k \in 1..Len(C22_Clusters) :
                                   id \in C22_Members(C22_Clusters[k]) }) = 1
        ELSE C22_Clusters = << >>

\* A run with clustering put the first repository alone in a cluster and the
\* other two together: the larger cluster comes first in the list although
\* the dict holds it second.
C22_Witness ==
    /\ outcome.status = "returned" /\ outcome.include_clustering
    /\ Len(repositories) = 3
    /\ Len(C22_Clusters) = 2
    /\ C22_Clusters[1].size = 2 /\ C22_Clusters[2].size = 1
    /\ C22_Clusters[2].repos = << 1 >>
    /\ C22_Labelled = {1, 2, 3}

\* ----------------------------------------------------------------- C23
\* The final_score the entries of a list carry, in list order.
C23_CarriedScores(entries) ==
    [k \in 1..Len(entries) |-> repositories[entries[k].repository].final_score]

\* C23: in a returned leaderboard, every category list is in non-increasing
\* order of the final_score of its entries' repositories.
C23_OrderedByCarriedScore ==
    HasReturned =>
        \A cat \in Categories :
            \A k \in 1..(Len(Current[cat]) - 1) :
                C23_CarriedScores(Current[cat])[k] >= C23_CarriedScores(Current[cat])[k + 1]

\* ----------------------------------------------------------------- C24
\* The rank the previous snapshot gave the repository of an updated entry.
C24_PreviousRank(cat, k) ==
    PreviousPositions(
        PreviousEntries(Get(history.previous), cat),
        history.repos[Get(history.leaderboard)[cat][k].repository].id)

\* C24: after update_leaderboard_with_historical_data, every entry whose
\* repository is in the previous snapshot's list has
\* change_from_previous = previous_rank - rank, with its new rank.
C24_ChangesFollowRanks ==
    (history.updates > 0 /\ ~IsNone(history.previous)) =>
        \A cat \in Categories :
            \A k \in 1..Len(Get(history.leaderboard)[cat]) :
                ~IsNone(C24_PreviousRank(cat, k)) =>
                    Get(history.leaderboard)[cat][k].change_from_previous
                        = Some(Get(C24_PreviousRank(cat, k))
                                 - Get(history.leaderboard)[cat][k].rank)

\* ----------------------------------------------------------------- C25
\* The age in days the k-th call saw.
C25_Age(k) == DaysSince(scored[k].repo.created_at) + scored[k].day

\* C25: maturity_balance is 1.0 for an age of 30 to 365 days, 0.8 for 366 to
\* 730 days, 0.6 for less than 30 days and 0.4 for more than 730 days.
C25_MaturityByAge ==
    \A k \in 1..Len(scored) :
        scored[k].maturity_balance =
            IF 30 <= C25_Age(k) /\ C25_Age(k) <= 365 THEN Tenths(10)
            ELSE IF 366 <= C25_Age(k) /\ C25_Age(k) <= 730 THEN Tenths(8)
            ELSE IF C25_Age(k) < 30 THEN Tenths(6)
            ELSE Tenths(4)

\* ----------------------------------------------------------------- C26
C26_Lists == {"trending", "established", "hidden_gems"}
C26_Cap(list) ==
    CASE list = "trending" -> 50 [] list = "established" -> 30 [] OTHER -> 20

\* The positions of the input repositories a returned list holds.
C26_Held(list) == { ranked[list][k] : k \in 1..Len(ranked[list]) }

\* The lists before the caps: where the category tests put each repository.
C26_Placed(list) ==
    { i \in 1..Len(repositories) : RankCategory(repositories[i]) = list }

\* C26: rank_repositories puts every input repository in exactly one of the
\* three categories, no repository is in two of the returned lists, and the
\* lists hold at most 50, 30 and 20 repositories (the first of each
\* category).
C26_OneCategoryEach ==
    (ranked.called = "rank" /\ ~ranked.raised) =>
        /\ \A i \in 1..Len(repositories) :
              Cardinality({ list \in C26_Lists : i \in C26_Placed(list) }) = 1
        /\ \A list \in C26_Lists :
              /\ Len(ranked[list]) <= C26_Cap(list)
              /\ Cardinality(C26_Held(list)) = Len(ranked[list])
              /\ C26_Held(list) \subseteq C26_Placed(list)
              /\ Len(ranked[list]) < C26_Cap(list) => C26_Held(list) = C26_Placed(list)
        /\ \A a, b \in C26_Lists :
              a # b => { repositories[i].id : i \in C26_Held(a) }
                         \cap { repositories[i].id : i \in C26_Held(b) } = {}

\* A ranking of 52 repositories of the "everything else" kind, of which the
\* trending list keeps 50.
C26_Witness ==
    /\ ranked.called = "rank" /\ ~ranked.raised
    /\ Len(repositories) = 52
    /\ Cardinality(C26_Placed("trending")) = 52
    /\ Len(ranked.trending) = 50

(***************************************************************************)
(* scheduler.py: LeaderboardScheduler                                      *)
(*                                                                         *)
(* A thread stands at one of these places.  A loop thread: "unborn" (not   *)
(* started), "check" (at `while self.is_running`), "sleep" (inside         *)
(* time.sleep(60)), "dead" (left the loop).  A caller of force_update_now:  *)
(* "idle" (outside the call).  Either of them inside run_daily_update or   *)
(* run_quick_update: "enter" (about to run its first line), "created" (job *)
(* created), "running" (job marked running), "return" or "reraise" (job    *)
(* marked completed or failed and appended to the history, before the      *)
(* finally clause).                                                        *)
(***************************************************************************)

\* job = self.create_scraping_job()
create_scraping_job ==
    [status |-> "pending", started_at |-> None, completed_at |-> None]

\* A job whose status is never written.
KeepJobStatus(job, status, now) == job

\* self.update_job_status(job, status, **kwargs); the keyword arguments carry
\* the repository counts and the error message.
update_job_status(job, status, now) ==
    IF status = "running" /\ IsNone(job.started_at)
    THEN [job EXCEPT !.status = status, !.started_at = Some(now)]
    ELSE IF status \in {"completed", "failed"}
         THEN [job EXCEPT !.status = status, !.completed_at = Some(now)]
         ELSE [job EXCEPT !.status = status]

\* job.model_dump(): a copy of the fields of ScrapingJob object j as they are now.
model_dump(j, job) == [job |-> j, status |-> job.status]

\* What no method of the scheduler writes.
SchedulerFrame ==
    UNCHANGED << pipeline_vars, scoring_vars, detected, cluster_vars, summary,
                 ranked, history, client_vars >>

\* scheduler.start_scheduler(), called after the previous start or stop returned.
StartScheduler ==
    /\ ~joining
    /\ IF is_running
       THEN UNCHANGED scheduler_vars
       ELSE \E t \in LoopThreads :
               /\ threads[t].pc = "unborn"
               /\ \A u \in LoopThreads : u < t => threads[u].pc # "unborn"
               /\ is_running' = TRUE
               /\ threads' = [threads EXCEPT ![t].pc = "check"]
               /\ scheduler_thread' = Some(t)
               /\ UNCHANGED << current_job, jobs_history, jobs, joining >>
    /\ SchedulerFrame

\* scheduler.stop_scheduler() up to the call of scheduler_thread.join(timeout=10).
StopScheduler ==
    /\ ~joining
    /\ IF is_running
       THEN /\ is_running' = FALSE
            /\ joining' = ~IsNone(scheduler_thread)
       ELSE UNCHANGED << is_running, joining >>
    /\ UNCHANGED << current_job, scheduler_thread, jobs_history, jobs, threads >>
    /\ SchedulerFrame

\* join(timeout=10) returns: the thread has ended, or ten seconds have passed
\* with the thread inside time.sleep(60) or inside a pending job.
JoinReturns ==
    /\ joining
    /\ threads[Get(scheduler_thread)].pc # "check"
    /\ joining' = FALSE
    /\ UNCHANGED << is_running, current_job, scheduler_thread, jobs_history, jobs,
                    threads >>
    /\ SchedulerFrame

\* The update runs begun so far: the jobs created and the calls about to create one.
RunsBegun == Len(jobs) + Cardinality({ t \in ThreadIds : threads[t].pc = "enter" })

\* run_scheduler: `while self.is_running: schedule.run_pending()`.  When the
\* daily update is due, run_pending calls _safe_run_daily_update, which calls
\* run_daily_update; when nothing is due the thread goes on to time.sleep(60).
WhileIsRunning(t) ==
    /\ t \in LoopThreads
    /\ threads[t].pc = "check"
    /\ \E due \in BOOLEAN :
          /\ due => RunsBegun < MaxJobs
          /\ threads' = [threads EXCEPT ![t].pc =
                            IF ~is_running THEN "dead"
                            ELSE IF due THEN "enter" ELSE "sleep"]
    /\ UNCHANGED << is_running, current_job, scheduler_thread, jobs_history, jobs,
                    joining >>
    /\ SchedulerFrame

\* run_scheduler: time.sleep(60) ends.
Sleep(t) ==
    /\ t \in LoopThreads
    /\ threads[t].pc = "sleep"
    /\ threads' = [threads EXCEPT ![t].pc = "check"]
    /\ UNCHANGED << is_running, current_job, scheduler_thread, jobs_history, jobs,
                    joining >>
    /\ SchedulerFrame

\* scheduler.force_update_now(quick), up to the call of run_quick_update (quick)
\* or run_daily_update, whose steps below are the same.
ForceUpdateNow(t, quick) ==
    /\ t \in Callers
    /\ threads[t].pc = "idle"
    /\ RunsBegun < MaxJobs
    /\ threads' = [threads EXCEPT ![t] =
                      IF ~IsNone(current_job) /\ jobs[Get(current_job)].status = "running"
                      THEN [pc |-> "idle", job |-> None, result |-> "refused"]
                      ELSE [pc |-> "enter", job |-> None, result |-> "none"]]
    /\ UNCHANGED << is_running, current_job, scheduler_thread, jobs_history, jobs,
                    joining >>
    /\ SchedulerFrame

\* run_daily_update, run_quick_update:
\*     job = self.create_scraping_job(); self.current_job = job
CreateJob(t) ==
    /\ threads[t].pc = "enter"
    /\ jobs' = Append(jobs, create_scraping_job)
    /\ current_job' = Some(Len(jobs) + 1)
    /\ threads' = [threads EXCEPT ![t].pc = "created", ![t].job = Some(Len(jobs) + 1)]
    /\ UNCHANGED << is_running, scheduler_thread, jobs_history, joining >>
    /\ SchedulerFrame

\*     self.update_job_status(job, "running")
MarkRunning(t) ==
    /\ threads[t].pc = "created"
    /\ jobs' = [jobs EXCEPT ![Get(threads[t].job)] =
                   update_job_status(@, "running", clock)]
    /\ threads' = [threads EXCEPT ![t].pc = "running"]
    /\ UNCHANGED << is_running, current_job, scheduler_thread, jobs_history, joining >>
    /\ SchedulerFrame

\* The job of thread t after the steps from scraping to the cache clean-up.
\* They write the files of the pipeline and no field of the scheduler, and
\* either all pass or one of them raises; then follows
\*     self.update_job_status(job, "completed", ...) in the try block, or
\*     self.update_job_status(job, "failed", ...) in the except block
JobAfterSteps(job, raised, now) ==
    IF raised
    THEN update_job_status(job, "failed", now)
    ELSE update_job_status(update_job_status(job, "running", now), "completed", now)

\*     the steps of the update, the last status of the job, and then
\*     self.jobs_history.append(job.model_dump()); self.save_state()
\* save_state writes the state file and swallows every error.
RunSteps(t) ==
    /\ threads[t].pc = "running"
    /\ \E raised \in BOOLEAN :
          /\ jobs' = [jobs EXCEPT ![Get(threads[t].job)] =
                         JobAfterSteps(@, raised, clock)]
          /\ jobs_history' =
                 Append(jobs_history,
                        model_dump(Get(threads[t].job),
                                   JobAfterSteps(jobs[Get(threads[t].job)], raised, clock)))
          /\ threads' = [threads EXCEPT ![t].pc = IF raised THEN "reraise" ELSE "return"]
    /\ UNCHANGED << is_running, current_job, scheduler_thread, joining >>
    /\ SchedulerFrame

\*     finally: self.current_job = None
\* and the call ends: it returns the leaderboard or raises again.  In a loop
\* thread _safe_run_daily_update swallows the exception and the loop sleeps.
Finally(t) ==
    /\ threads[t].pc \in {"return", "reraise"}
    /\ current_job' = None
    /\ threads' = [threads EXCEPT ![t] =
                      IF t \in LoopThreads
                      THEN [pc |-> "sleep", job |-> None, result |-> "none"]
                      ELSE [pc |-> "idle", job |-> None,
                            result |-> IF threads[t].pc = "return" THEN "returned"
                                       ELSE "raised"]]
    /\ UNCHANGED << is_running, scheduler_thread, jobs_history, jobs, joining >>
    /\ SchedulerFrame

InitScheduling == InitWith({<< >>})

NextScheduling ==
    \/ StartScheduler
    \/ StopScheduler
    \/ JoinReturns
    \/ \E t \in ThreadIds : WhileIsRunning(t)
    \/ \E t \in ThreadIds : Sleep(t)
    \/ \E t \in ThreadIds : \E quick \in BOOLEAN : ForceUpdateNow(t, quick)
    \/ \E t \in ThreadIds : CreateJob(t)
    \/ \E t \in ThreadIds : MarkRunning(t)
    \/ \E t \in ThreadIds : RunSteps(t)
    \/ \E t \in ThreadIds : Finally(t)

SpecScheduler == InitScheduling /\ [][NextScheduling]_vars

\* A thread is executing an update job: it is inside run_daily_update or
\* run_quick_update, between the creation of the job and the end of the call.
Executing(t) ==
    threads[t].pc \in {"created", "running", "return", "reraise"}

\* C27: at most one update job is executing at any time, whichever of the
\* scheduler thread and the callers of force_update_now started it.
C27_OneJobExecuting ==
    Cardinality({ t \in ThreadIds : Executing(t) }) <= 1

\* The records of ScrapingJob object j in a jobs_history.
C28_Records(h, j) == { k \in 1..Len(h) : h[k].job = j }

\* The moves of a job's status that the claim allows.
C28_Moves ==
    { << "pending", "running" >>, << "running", "completed" >>,
      << "running", "failed" >> }

\* One step of the scheduler, as the claim has it: a call that ends has left
\* current_job = None and exactly one record of its job, completed when it
\* returns and failed when it raises; a job starts pending and its status only
\* moves as allowed; a record once appended stays, and no job gets a second one.
C28_Step ==
    /\ \A t \in ThreadIds :
          (Executing(t) /\ threads'[t].pc \in {"idle", "sleep"}) =>
             /\ current_job' = None
             /\ threads[t].pc \in {"return", "reraise"}
             /\ t \in Callers =>
                   threads'[t].result =
                       IF threads[t].pc = "return" THEN "returned" ELSE "raised"
             /\ Cardinality(C28_Records(jobs_history', Get(threads[t].job))) = 1
             /\ \A k \in C28_Records(jobs_history', Get(threads[t].job)) :
                   jobs_history'[k].status =
                       IF threads[t].pc = "return" THEN "completed" ELSE "failed"
    /\ \A j \in 1..Len(jobs) :
          jobs'[j].status # jobs[j].status =>
              << jobs[j].status, jobs'[j].status >> \in C28_Moves
    /\ \A j \in (Len(jobs) + 1)..Len(jobs') : jobs'[j].status = "pending"
    /\ Len(jobs_history') >= Len(jobs_history)
    /\ SubSeq(jobs_history', 1, Len(jobs_history)) = jobs_history
    /\ \A k \in (Len(jobs_history) + 1)..Len(jobs_history') :
          C28_Records(jobs_history, jobs_history'[k].job) = {}

\* C28: every call of run_daily_update or run_quick_update appends exactly one
\* record to jobs_history, completed on return and failed on raise, and leaves
\* current_job = None; a job's status only moves pending -> running ->
\* completed or failed.
C28_OneRecordPerCall == [][C28_Step]_vars

\* A forced update has returned after a scheduled one had raised: the history
\* holds the failed record of the one and the completed record of the other,
\* no call is in progress and current_job is None.
C28_Witness ==
    /\ current_job = None
    /\ \A t \in ThreadIds : ~Executing(t) /\ threads[t].pc # "enter"
    /\ \E t \in Callers : threads[t].result = "returned"
    /\ \E u \in LoopThreads : threads[u].pc = "sleep"
    /\ jobs_history = << [job |-> 1, status |-> "failed"],
                         [job |-> 2, status |-> "completed"] >>

\* One step of the scheduler, as the claim has it: start_scheduler starts no
\* thread while the scheduler is running, and the only loop thread that goes on
\* to run pending jobs is the thread of the last start: a thread that
\* stop_scheduler was called on ends at its next test of is_running.
C29_Step ==
    \A t \in LoopThreads :
        /\ (threads[t].pc = "unborn" /\ threads'[t].pc # "unborn") => ~is_running
        /\ (threads[t].pc = "check" /\ threads'[t].pc \in {"enter", "sleep"}) =>
              scheduler_thread = Some(t)

\* C29: at most one scheduler loop thread is active for any sequence of
\* start_scheduler and stop_scheduler calls: a second start while running
\* starts nothing, and after stop_scheduler has returned the previous loop
\* thread runs no further pending jobs, even when start_scheduler follows at once.
C29_OneLoopThread == [][C29_Step]_vars

(***************************************************************************)
(* scraper/github_client.py: GitHubClient._make_request                    *)
(*                                                                         *)
(* The call stands at "get" (about to call session.get), at "rate_sleep"   *)
(* (inside the time.sleep of _handle_rate_limit), at "backoff" (inside     *)
(* time.sleep(2 ** attempt)) or, outside the call, at "idle".              *)
(***************************************************************************)
max_retries == 3
MaxRequests == 2
MaxGets == 5

\* What session.get can bring: a response, with its rate-limit headers, or a
\* RequestException ("connection_error").  "ok" is a 2xx response with a JSON
\* body, "bad_json" a 2xx response with another body, "rate_limited" a 403
\* whose text holds 'rate limit', "http_error" any other 4xx or 5xx response,
\* "bad_header" a response whose X-RateLimit headers are not integers.
Headers == { [remaining |-> 0, reset |-> 1], [remaining |-> 7, reset |-> 0] }
Responses ==
    { [kind |-> k, remaining |-> h.remaining, reset |-> h.reset] :
          k \in {"ok", "bad_json", "rate_limited", "http_error"}, h \in Headers }
    \cup { [kind |-> k, remaining |-> 0, reset |-> 0] :
               k \in {"bad_header", "connection_error"} }

\* self._handle_rate_limit(response), up to its time.sleep: the fields it
\* leaves in the client and whether it goes on to sleep and return True
\* ("limited"), returns False ("passed") or raises out of int() ("raised").
handle_rate_limit(fields, response) ==
    IF response.kind = "bad_header"
    THEN [client |-> fields, outcome |-> "raised"]
    ELSE [ client |-> [ rate_limit_remaining |-> Some(response.remaining),
                        rate_limit_reset |-> Some(response.reset) ],
           outcome |-> IF response.kind = "rate_limited" THEN "limited"
                       ELSE "passed" ]

\* A loop variable that stands still.
SameAttempt(attempt) == attempt

\* `for attempt in range(max_retries)`: the next value of the loop variable.
NextAttempt(attempt) == attempt + 1

\* The loop goes round: into the next attempt, or out of the loop into
\* `raise Exception("Failed to make request after 3 attempts")`.
NextIteration(req) ==
    IF NextAttempt(req.attempt) < max_retries
    THEN [req EXCEPT !.pc = "get", !.attempt = NextAttempt(req.attempt)]
    ELSE [req EXCEPT !.pc = "idle", !.attempt = NextAttempt(req.attempt),
                     !.result = "raised_failed"]

\* except requests.exceptions.RequestException: sleep and go round, or raise.
OnRequestException(req) ==
    IF req.attempt < max_retries - 1
    THEN [req EXCEPT !.pc = "backoff"]
    ELSE [req EXCEPT !.pc = "idle", !.result = "raised_request"]

\* One pass through the try block with the response that session.get brought.
\* A body that is no JSON raises requests' JSONDecodeError, a RequestException
\* in some versions of the library and a plain ValueError in others.
AfterGet(req, handled, response, json_error_is_request_exception) ==
    IF response.kind = "connection_error" THEN OnRequestException(req)
    ELSE IF handled.outcome = "raised"
         THEN [req EXCEPT !.pc = "idle", !.result = "raised_other"]
    ELSE IF handled.outcome = "limited" THEN [req EXCEPT !.pc = "rate_sleep"]
    ELSE IF response.kind = "http_error" THEN OnRequestException(req)
    ELSE IF response.kind = "bad_json"
         THEN IF json_error_is_request_exception
              THEN OnRequestException(req)
              ELSE [req EXCEPT !.pc = "idle", !.result = "raised_other"]
    ELSE [req EXCEPT !.pc = "idle", !.result = "body"]

ClientFrame ==
    UNCHANGED << pipeline_vars, scoring_vars, detected, cluster_vars, summary,
                 ranked, history, scheduler_vars >>

\* client._make_request(url, params) is called.
MakeRequest ==
    /\ request.pc = "idle"
    /\ request.calls < MaxRequests
    /\ request' = [ pc |-> "get", attempt |-> 0, gets |-> 0, responses |-> << >>,
                    result |-> "none", calls |-> request.calls + 1 ]
    /\ UNCHANGED client
    /\ ClientFrame

\* response = self.session.get(url, params=params, timeout=30) and the rest of
\* the try block, up to a sleep, a return or a raise.
GetResponse ==
    /\ request.pc = "get"
    /\ request.gets < MaxGets
    /\ \E response \in Responses, json_error_is_request_exception \in BOOLEAN :
          /\ client' = IF response.kind = "connection_error" THEN client
                       ELSE handle_rate_limit(client, response).client
          /\ request' = AfterGet([request EXCEPT
                                     !.gets = @ + 1,
                                     !.responses = Append(@, response.kind)],
                                 handle_rate_limit(client, response), response,
                                 json_error_is_request_exception)
    /\ ClientFrame

\* The time.sleep of _handle_rate_limit ends, it returns True: `continue`.
RateSleepEnds ==
    /\ request.pc = "rate_sleep"
    /\ request' = NextIteration(request)
    /\ UNCHANGED client
    /\ ClientFrame

\* time.sleep(2 ** attempt) ends and the loop goes round.
BackoffEnds ==
    /\ request.pc = "backoff"
    /\ request' = NextIteration(request)
    /\ UNCHANGED client
    /\ ClientFrame

InitRequests == InitWith({<< >>})

\* The steps of a call in progress.
RequestStep == GetResponse \/ RateSleepEnds \/ BackoffEnds

NextRequests ==
    \/ MakeRequest
    \/ GetResponse
    \/ RateSleepEnds
    \/ BackoffEnds

\* The thread inside _make_request keeps running, and every sleep ends.
SpecClient == InitRequests /\ [][NextRequests]_vars /\ WF_vars(RequestStep)

\* A _make_request call has ended.
C30_Finished == request.pc = "idle" /\ request.calls > 0

\* At most three HTTP attempts, rate-limited ones counted; a call that has ended
\* returned the body of a successful response or raised; a request error on the
\* third attempt was raised again.
C30_Bounded ==
    /\ request.gets = Len(request.responses)
    /\ request.gets <= max_retries
    /\ C30_Finished =>
          /\ request.result \in {"body", "raised_request", "raised_failed", "raised_other"}
          /\ request.gets >= 1
          /\ request.result = "body" <=> request.responses[request.gets] = "ok"
          /\ (/\ request.gets = max_retries
              /\ request.responses[max_retries] \in {"connection_error", "http_error"})
                => request.result = "raised_request"
          /\ (/\ request.gets = max_retries
              /\ request.responses[max_retries] = "rate_limited")
                => request.result = "raised_failed"

\* C30: _make_request always terminates after at most 3 HTTP attempts: it
\* returns the parsed body of a successful response or raises; a rate-limited
\* response uses up one of the three attempts, and a request error on the
\* third attempt is raised again instead of retried.
C30_Terminates ==
    /\ []C30_Bounded
    /\ (request.pc # "idle") ~> (request.pc = "idle")

\* Two rate-limited responses, then a connection error on the third attempt:
\* the call has ended by raising that error.
C30_Witness ==
    /\ C30_Finished
    /\ request.responses = << "rate_limited", "rate_limited", "connection_error" >>
    /\ request.result = "raised_request"
====
